---- MODULE Spec2Model ----
(***************************************************************************)
(* Model of script/brand/maintenance.cjs (the fork-maintenance and         *)
(* upstream-sync orchestrator of the branded fork).                        *)
(*                                                                         *)
(* The script is one synchronous program.  pc is its position; every       *)
(* action is one block of the script, taken between the points where it    *)
(* waits for an external process.  The outcome of every external process   *)
(* (git, node, npm, npx) is an input drawn with \E; the git repository is  *)
(* the record repo, updated by the operators Git... below as the commands  *)
(* of the script act on it.                                                *)
(***************************************************************************)
EXTENDS Integers, Sequences, FiniteSets, TLC

\* ------------------------------------------------------------------ bounds
MaxBehind == 1
MaxAhead == 1
MaxLines == 1
MaxVer == 1
MaxFrags == 2
MaxCalls == 2

\* --------------------------------------------------------------- constants
PackageJson == "package.json"
OtherPath == "src/other.ts"
Paths == {PackageJson, OtherPath}
ConflictSets == (SUBSET Paths) \ {{}}

DefaultRef == "upstream/main"
OtherRef == "upstream/next"
Refs == {DefaultRef, OtherRef}

PkgStates == {"branded", "unbranded", "corrupt"}

Undef == "undefined"
None == <<>>
Some(x) == <<x>>

VARIABLES
    pc,          \* position in the script
    env,         \* process.env: the MAINT_* toggles
    repo,        \* the git repository and working tree
    divergence,  \* let divergence (None is null)
    autoSync,    \* const autoSync
    stashed,     \* let stashed
    steps,       \* summary.steps
    issues,      \* summary.issues
    exitCode,    \* process.exitCode (0 is unset)
    failLog,     \* the messages fail() has printed
    gitLog,      \* the git commands run so far, in order
    brandAudit,  \* summary.steps.brandAudit
    tests,       \* the unit-test block: result, flakyRecovered, infraFailure
    printed,     \* the JSON summary has been printed
    manifest,    \* the package.json documents a resolver or the overlay works on
    grepOut,     \* the lines grep reports for a working tree that is fixed
    welcome,     \* a call of getAdditionalWelcomeMessage: configuration and result
    versions     \* the engine versions of package.json, process.version and npm -v, when fixed

\* the variables of the programs beside the maintenance script
aside == <<manifest, grepOut, welcome, versions>>

vars == <<pc, env, repo, divergence, autoSync, stashed, steps, issues,
          exitCode, failLog, gitLog, brandAudit, tests, printed, aside>>

\* ------------------------------------------------------------ environment
Strategies == {"rebase", "merge"}

\* const strategy / upstreamRef / tolerateConflict / ... and the toggles the
\* script reads from process.env further down
\* process.env.MAINT_TEST_POOL: unset, or one of the two pools
Pools == {"", "forks", "threads"}

SyncEnvs ==
    [autoRebase : {TRUE}, strategy : Strategies, upstreamRef : {DefaultRef},
     tolerateConflict : BOOLEAN, allowDirty : BOOLEAN, stashDirty : BOOLEAN,
     preSyncAutoCommit : BOOLEAN, noVerify : BOOLEAN, fallbackToMerge : BOOLEAN,
     autoResolvePackageJson : BOOLEAN, autoCommit : BOOLEAN, autoPush : BOOLEAN,
     allowEngineMismatch : {FALSE}, cleanInstall : {FALSE}, skipTests : {FALSE},
     desiredPool : {""}, disableFallback : {FALSE}, tolerateTestFlake : {FALSE}]

\* the environments of the whole-run specification: the tolerance toggles, the
\* stash and the clean install; the sync toggles are unset when auto-sync is off
RunEnvs ==
    {e \in [autoRebase : BOOLEAN, strategy : {"rebase"}, upstreamRef : {DefaultRef},
            tolerateConflict : BOOLEAN, allowDirty : {FALSE}, stashDirty : BOOLEAN,
            preSyncAutoCommit : {FALSE}, noVerify : {FALSE}, fallbackToMerge : {FALSE},
            autoResolvePackageJson : {FALSE}, autoCommit : {FALSE}, autoPush : {FALSE},
            allowEngineMismatch : BOOLEAN, cleanInstall : BOOLEAN, skipTests : {FALSE},
            desiredPool : {""}, disableFallback : {FALSE}, tolerateTestFlake : BOOLEAN] :
        e.autoRebase \/ (~e.tolerateConflict /\ ~e.stashDirty)}

\* the environments of the unit-test specification
TestEnvs ==
    [autoRebase : {FALSE}, strategy : {"rebase"}, upstreamRef : {DefaultRef},
     tolerateConflict : {FALSE}, allowDirty : {FALSE}, stashDirty : {FALSE},
     preSyncAutoCommit : {FALSE}, noVerify : {FALSE}, fallbackToMerge : {FALSE},
     autoResolvePackageJson : {FALSE}, autoCommit : {FALSE}, autoPush : {FALSE},
     allowEngineMismatch : {FALSE}, cleanInstall : {FALSE}, skipTests : BOOLEAN,
     desiredPool : Pools, disableFallback : BOOLEAN, tolerateTestFlake : BOOLEAN]

\* const autoSync = { strategy, upstreamRef, currentBranch, performed: false }
AutoSyncInit ==
    [performed |-> FALSE, result |-> Undef, conflicts |-> None,
     postDivergence |-> None, aborted |-> FALSE, stashed |-> FALSE,
     commit |-> Undef, push |-> FALSE, reappliedOverlay |-> Undef,
     preSyncCommit |-> FALSE]

StepNames == {"fetch", "divergence", "autoSync", "engines", "install", "compile",
              "brandAudit", "unitTests", "namespaceStrict"}

\* const summary = { steps: {}, issues: [] }
StepsInit == [n \in StepNames |-> Undef]

\* ------------------------------------------------------------- repository
\* refs[r].ok: the reference resolves; refs[r].behind: commits of r not in HEAD
RefStates == {[ok |-> FALSE, behind |-> 0]} \cup [ok : {TRUE}, behind : 0..MaxBehind]

RepoInit(dirty, ahead, refs) ==
    [dirty |-> dirty, inProgress |-> "none", unmerged |-> {}, stash |-> 0,
     ahead |-> ahead, refs |-> refs, pkg |-> "branded", pkgOrig |-> "branded"]

\* git rev-list --left-right --count <ref>...HEAD
RevListOk(r, ref) == r.refs[ref].ok
RevListCount(r, ref) == [behind |-> r.refs[ref].behind, ahead |-> r.ahead]

\* the outcomes git rebase <ref> / git merge --no-edit <ref> can have
SyncOutcomes(r, ref) ==
    IF ~r.refs[ref].ok THEN {"error"}
    ELSE IF r.refs[ref].behind = 0 THEN {"ok"}
    ELSE {"ok", "conflict", "error"}

\* a rebase or merge that stops on conflicts leaves the operation in progress
GitConflict(r, op, files) ==
    [r EXCEPT !.inProgress = op, !.unmerged = files, !.pkgOrig = r.pkg,
              !.pkg = IF PackageJson \in files THEN "corrupt" ELSE r.pkg]

GitRebaseOk(r, ref, pkg) ==
    [r EXCEPT !.refs[ref].behind = 0, !.pkg = pkg, !.inProgress = "none",
              !.unmerged = {}]

GitMergeOk(r, ref, pkg) ==
    [r EXCEPT !.refs[ref].behind = 0, !.pkg = pkg, !.inProgress = "none",
              !.unmerged = {},
              !.ahead = IF r.refs[ref].behind = 0 \/ r.ahead = 0
                        THEN r.ahead ELSE r.ahead + 1]

\* git rebase --abort: acts only on a rebase in progress
GitRebaseAbort(r) ==
    IF r.inProgress = "rebase"
    THEN [r EXCEPT !.inProgress = "none", !.unmerged = {}, !.pkg = r.pkgOrig]
    ELSE r

\* git merge --abort: acts only on a merge in progress
GitMergeAbort(r) ==
    IF r.inProgress = "merge"
    THEN [r EXCEPT !.inProgress = "none", !.unmerged = {}, !.pkg = r.pkgOrig]
    ELSE r

\* a commit that also takes what the stash holds
GitCommit_TakesStash(r) == [r EXCEPT !.dirty = FALSE, !.ahead = r.ahead + 1, !.stash = 0]

\* git commit of the staged tree
GitCommit(r) == [r EXCEPT !.dirty = FALSE, !.ahead = r.ahead + 1]

\* ---------------------------------------------------------------- helpers
\* function run(cmd, args): one entry of gitLog, ok is r.status === 0
Run(cmd, ok) == [cmd |-> cmd, ok |-> ok]
\* function fail(msg)
fail(log, msg) == Append(log, msg)
ExitAfter(code, called) == IF called THEN 1 ELSE code

\* let result; let flakyRecovered = false; let infraFailure = false
TestsInit ==
    [result |-> None, flakyRecovered |-> FALSE, infraFailure |-> FALSE,
     attempts |-> <<>>]

\* no resolver, overlay, audit-only or welcome call is under way
AsideIdle == manifest = None /\ grepOut = None /\ welcome = None /\ versions = None

Init ==
    /\ pc = "divergence"
    /\ env \in SyncEnvs
    /\ \E dirty \in BOOLEAN, ahead \in 0..MaxAhead, main \in RefStates :
          repo = RepoInit(dirty, ahead,
                          [r \in Refs |-> IF r = DefaultRef THEN main
                                          ELSE [ok |-> FALSE, behind |-> 0]])
    /\ divergence = None
    /\ autoSync = AutoSyncInit
    /\ stashed = FALSE
    /\ steps = [StepsInit EXCEPT !["fetch"] = "ok"]
    /\ issues = <<>>
    /\ exitCode = 0
    /\ failLog = <<>>
    /\ gitLog = <<Run("fetch", TRUE)>>
    /\ brandAudit = None
    /\ tests = TestsInit
    /\ printed = FALSE
    /\ AsideIdle

\* let divergence = null; const revList = run('git', ['rev-list', ...
Divergence ==
    /\ pc = "divergence"
    /\ divergence' = IF RevListOk(repo, DefaultRef)
                     THEN Some(RevListCount(repo, DefaultRef)) ELSE None
    /\ steps' = [steps EXCEPT !["divergence"] =
                    IF RevListOk(repo, DefaultRef) THEN "measured" ELSE "null"]
    /\ pc' = IF env.autoRebase THEN "dirtyGate" ELSE "engines"
    /\ UNCHANGED <<aside, env, repo, autoSync, stashed, issues, exitCode, failLog,
                   gitLog, brandAudit, tests, printed>>

\* script/brand/applyManifestOverlay.cjs main(): a manifest that already
\* carries the brand prefix is left alone, an unparsable one makes it throw
ApplyManifestOverlay(pkg) ==
    IF pkg = "unbranded" THEN "branded" ELSE pkg

\* run('node', ['script/brand/applyManifestOverlay.cjs']) exiting with ovOk
RunOverlay(r, ovOk) ==
    IF ovOk /\ ApplyManifestOverlay(r.pkg) # r.pkg
    THEN [r EXCEPT !.pkg = ApplyManifestOverlay(r.pkg), !.dirty = TRUE]
    ELSE r

\* the manifest a finished rebase or merge can leave in the working tree
PkgAfter(r, ref) == IF r.refs[ref].behind = 0 THEN {r.pkg} ELSE PkgStates

\* commit, retried once with --no-verify when the verified attempt failed
CommitRetried(c1, noVerify) == ~c1 /\ ~noVerify
CommitOk(c1, c2, noVerify) == c1 \/ (CommitRetried(c1, noVerify) /\ c2)
CommitCmds(c1, c2, noVerify) ==
    IF CommitRetried(c1, noVerify)
    THEN <<Run("commit", c1), Run("commit --no-verify", c2)>>
    ELSE <<Run(IF noVerify THEN "commit --no-verify" ELSE "commit", c1)>>

\* the stash tried before the pre-sync commit
DirtyPath_StashFirst(status, e) ==
    IF ~status THEN "clean"
    ELSE IF e.stashDirty THEN "stash"
    ELSE IF e.preSyncAutoCommit THEN "commit"
    ELSE IF ~e.allowDirty THEN "abort"
    ELSE "allow"

\* if (status) { if (preSyncAutoCommit) ... else if (stashDirty) ... else if (!allowDirty) ... }
DirtyPath(status, e) ==
    IF ~status THEN "clean"
    ELSE IF e.preSyncAutoCommit THEN "commit"
    ELSE IF e.stashDirty THEN "stash"
    ELSE IF ~e.allowDirty THEN "abort"
    ELSE "allow"

\* Dirty working tree handling
DirtyGate ==
    /\ pc = "dirtyGate"
    /\ \E addOk \in BOOLEAN, c1 \in BOOLEAN, c2 \in BOOLEAN, stashOk \in BOOLEAN :
        LET path == DirtyPath(repo.dirty, env)
            preSync == path = "commit"
            stashPath == path = "stash"
            abortPath == path = "abort"
            committed == preSync /\ addOk /\ CommitOk(c1, c2, env.noVerify)
            commitFailed == preSync /\ addOk /\ ~CommitOk(c1, c2, env.noVerify)
        IN  /\ gitLog' = gitLog \o
                 (IF preSync
                  THEN <<Run("add -A", addOk)>> \o
                       (IF addOk THEN CommitCmds(c1, c2, env.noVerify) ELSE <<>>)
                  ELSE IF stashPath THEN <<Run("stash push", stashOk)>> ELSE <<>>)
            /\ repo' = IF committed THEN GitCommit(repo)
                       ELSE IF stashPath /\ stashOk
                       THEN [repo EXCEPT !.dirty = FALSE, !.stash = repo.stash + 1]
                       ELSE repo
            /\ stashed' = (stashPath /\ stashOk)
            /\ autoSync' = [autoSync EXCEPT
                              !.preSyncCommit = committed,
                              !.stashed = (stashPath /\ stashOk),
                              !.result = IF abortPath THEN "dirty-abort" ELSE Undef]
            /\ steps' = IF abortPath THEN [steps EXCEPT !["autoSync"] = "recorded"]
                        ELSE steps
            /\ failLog' = IF commitFailed THEN fail(failLog, "Pre-sync auto commit failed")
                          ELSE IF abortPath
                          THEN fail(failLog, "Dirty working tree blocks auto rebase.")
                          ELSE failLog
            /\ exitCode' = ExitAfter(exitCode, commitFailed \/ abortPath)
            /\ issues' = IF commitFailed THEN Append(issues, "Pre-sync auto commit failed")
                         ELSE issues
    /\ pc' = "sync"
    /\ UNCHANGED <<aside, env, divergence, brandAudit, tests, printed>>

\* autoSync after a sync operation succeeded: the overlay check of the
\* manifest and the divergence measured again against upstreamRef
OverlayNote(pkg, ovOk) ==
    IF pkg = "corrupt" THEN "failed"
    ELSE IF pkg = "unbranded" THEN (IF ovOk THEN "ok" ELSE "error")
    ELSE Undef

\* run('node', ['script/brand/applyManifestOverlay.cjs']) when displayName is
\* missing or does not start with 'SWE Agent'
OverlayCmds(pkg, ovOk) == IF pkg = "unbranded" THEN <<Run("overlay", ovOk)>> ELSE <<>>

\* the recount forgotten: whatever was stored before is kept
PostDivergence_Stale(as, r, ref) == as.postDivergence

PostDivergence(as, r, ref) ==
    IF RevListOk(r, ref) THEN Some(RevListCount(r, ref)) ELSE as.postDivergence

SyncOp(strategy) == IF strategy = "merge" THEN "merge" ELSE "rebase"

\* the behind-count not looked at
IsBehind_AnyDivergence(d) == d # None

\* if (divergence && divergence.behind > 0)
IsBehind(d) == d # None /\ d[1].behind > 0

\* Sync attempt: the configured strategy against upstreamRef
SyncAttempt ==
    /\ pc = "sync"
    /\ IF IsBehind(divergence)
       THEN \E out \in SyncOutcomes(repo, env.upstreamRef) :
            /\ \/ /\ out = "ok"
                  /\ \E pkg \in PkgAfter(repo, env.upstreamRef), ovOk \in BOOLEAN :
                     LET r1 == IF SyncOp(env.strategy) = "merge"
                               THEN GitMergeOk(repo, env.upstreamRef, pkg)
                               ELSE GitRebaseOk(repo, env.upstreamRef, pkg)
                         r2 == RunOverlay(r1, ovOk)
                     IN  /\ repo' = r2
                         /\ gitLog' = gitLog \o <<Run(SyncOp(env.strategy), TRUE)>>
                                               \o OverlayCmds(pkg, ovOk)
                         /\ autoSync' = [autoSync EXCEPT
                               !.performed = TRUE,
                               !.result = "ok",
                               !.reappliedOverlay = OverlayNote(pkg, ovOk),
                               !.postDivergence =
                                   PostDivergence(autoSync, r2, env.upstreamRef)]
                  /\ pc' = "autoCommit"
               \/ /\ out = "conflict"
                  /\ \E files \in ConflictSets :
                        repo' = GitConflict(repo, SyncOp(env.strategy), files)
                  /\ gitLog' = Append(gitLog, Run(SyncOp(env.strategy), FALSE))
                  /\ UNCHANGED autoSync
                  /\ pc' = "inline"
               \/ /\ out = "error"
                  /\ gitLog' = Append(gitLog, Run(SyncOp(env.strategy), FALSE))
                  /\ UNCHANGED <<repo, autoSync>>
                  /\ pc' = "inline"
       ELSE /\ autoSync' = [autoSync EXCEPT !.result = "up-to-date"]
            /\ pc' = "autoCommit"
            /\ UNCHANGED <<repo, gitLog>>
    /\ UNCHANGED <<aside, env, divergence, stashed, steps, issues, exitCode, failLog,
                   brandAudit, tests, printed>>

\* git add package.json: the path leaves the unmerged set
GitAddPackageJson(r) == [r EXCEPT !.unmerged = r.unmerged \ {PackageJson}]

\* git rebase --continue can finish only a rebase in progress with nothing
\* left unmerged
ContinueOutcomes(r) ==
    IF r.inProgress = "rebase" /\ r.unmerged = {} THEN {"ok", "fail"} ELSE {"fail"}

\* if (conflictFilesEarly.includes('package.json'))
InlineApplies(autoResolve, unmerged) == autoResolve /\ PackageJson \in unmerged

\* Attempt auto-resolution for package.json conflicts using index stages
InlineResolve ==
    /\ pc = "inline"
    /\ IF InlineApplies(env.autoResolvePackageJson, repo.unmerged)
       THEN \E parseOk \in BOOLEAN, addOk \in BOOLEAN, ovOk \in BOOLEAN :
            IF ~parseOk
            THEN UNCHANGED <<repo, autoSync, gitLog>>
            ELSE LET r1 == [repo EXCEPT !.pkg = "unbranded"]    \* fs.writeFileSync
                     r2 == IF addOk THEN GitAddPackageJson(r1) ELSE r1
                 IN  IF ~addOk
                     THEN /\ repo' = r1
                          /\ gitLog' = Append(gitLog, Run("add package.json", FALSE))
                          /\ UNCHANGED autoSync
                     ELSE \E cont \in ContinueOutcomes(r2) :
                          /\ gitLog' = gitLog \o <<Run("add package.json", TRUE),
                                                    Run("rebase --continue", cont = "ok")>>
                                \o (IF cont = "ok" THEN OverlayCmds(r2.pkg, ovOk)
                                    ELSE <<>>)
                          /\ IF cont = "ok"
                             THEN LET r3 == GitRebaseOk(r2, env.upstreamRef, r2.pkg)
                                      r4 == RunOverlay(r3, ovOk)
                                  IN  /\ repo' = r4
                                      /\ autoSync' = [autoSync EXCEPT
                                            !.performed = TRUE,
                                            !.result = "ok",
                                            !.postDivergence =
                                               PostDivergence(autoSync, r3, env.upstreamRef)]
                             ELSE /\ repo' = r2
                                  /\ UNCHANGED autoSync
       ELSE UNCHANGED <<repo, autoSync, gitLog>>
    /\ pc' = "fallback"
    /\ UNCHANGED <<aside, env, divergence, stashed, steps, issues, exitCode, failLog,
                   brandAudit, tests, printed>>

\* if (strategy === 'rebase' && fallbackToMerge)
FallbackApplies(strategy, fallbackToMerge) == strategy = "rebase" /\ fallbackToMerge

\* fallback to merge if enabled and strategy was rebase
FallbackMerge ==
    /\ pc = "fallback"
    /\ IF FallbackApplies(env.strategy, env.fallbackToMerge)
       THEN LET r1 == GitRebaseAbort(repo)
            IN  \E out \in SyncOutcomes(r1, env.upstreamRef) :
                /\ gitLog' = gitLog \o <<Run("rebase --abort", repo.inProgress = "rebase"),
                                          Run("merge", out = "ok")>>
                /\ \/ /\ out = "ok"
                      /\ \E pkg \in PkgAfter(r1, env.upstreamRef) :
                         LET r2 == GitMergeOk(r1, env.upstreamRef, pkg)
                         IN  /\ repo' = r2
                             /\ autoSync' = [autoSync EXCEPT
                                   !.performed = TRUE,
                                   !.result = "ok-merge-fallback",
                                   !.postDivergence =
                                      PostDivergence(autoSync, r2, env.upstreamRef)]
                   \/ /\ out = "conflict"
                      /\ \E files \in ConflictSets :
                            repo' = GitConflict(r1, "merge", files)
                      /\ UNCHANGED autoSync
                   \/ /\ out = "error"
                      /\ repo' = r1
                      /\ UNCHANGED autoSync
       ELSE UNCHANGED <<repo, autoSync, gitLog>>
    /\ pc' = "conflict"
    /\ UNCHANGED <<aside, env, divergence, stashed, steps, issues, exitCode, failLog,
                   brandAudit, tests, printed>>

\* if (!autoSync.result || autoSync.result === 'ok') { autoSync.result = 'conflict'; }
ConflictResult(result) ==
    IF result = Undef \/ result = "ok" THEN "conflict" ELSE result

\* if (strategy === 'rebase') rebase --abort else merge --abort
AbortCmd(strategy) == IF strategy = "rebase" THEN "rebase --abort" ELSE "merge --abort"

GitAbort(r, cmd) == IF cmd = "rebase --abort" THEN GitRebaseAbort(r) ELSE GitMergeAbort(r)

ConflictIssue(tolerate) ==
    IF tolerate THEN "Upstream sync conflict (tolerated)" ELSE "Upstream sync conflict"

\* Conflict or failure
ConflictBlock ==
    /\ pc = "conflict"
    /\ autoSync' = [autoSync EXCEPT
                       !.result = ConflictResult(autoSync.result),
                       !.conflicts = Some(repo.unmerged),
                       !.aborted = TRUE]
    /\ gitLog' = Append(gitLog, Run(AbortCmd(env.strategy),
                                     GitAbort(repo, AbortCmd(env.strategy)) # repo))
    /\ repo' = GitAbort(repo, AbortCmd(env.strategy))
    /\ issues' = Append(issues, ConflictIssue(env.tolerateConflict))
    /\ failLog' = IF env.tolerateConflict THEN failLog
                  ELSE fail(failLog, "Upstream sync conflict")
    /\ exitCode' = ExitAfter(exitCode, ~env.tolerateConflict)
    /\ pc' = "autoCommit"
    /\ UNCHANGED <<aside, env, divergence, stashed, steps, brandAudit, tests, printed>>

\* any successful sync result taken for a clean success
AutoCommitApplies_AnySuccess(result, autoCommit) ==
    result \in {"ok", "ok-merge-fallback"} /\ autoCommit

\* if (autoSync.result === 'ok' && process.env.MAINT_AUTO_COMMIT === '1')
AutoCommitApplies(result, autoCommit) == result = "ok" /\ autoCommit

\* Auto commit
AutoCommit ==
    /\ pc = "autoCommit"
    /\ IF AutoCommitApplies(autoSync.result, env.autoCommit)
       THEN IF repo.dirty          \* postStatus
            THEN \E addOk \in BOOLEAN, c1 \in BOOLEAN, c2 \in BOOLEAN :
                 LET ok == addOk /\ CommitOk(c1, c2, env.noVerify)
                     failed == addOk /\ ~CommitOk(c1, c2, env.noVerify)
                 IN  /\ gitLog' = gitLog \o <<Run("add -A", addOk)>> \o
                           (IF addOk THEN CommitCmds(c1, c2, env.noVerify) ELSE <<>>)
                     /\ repo' = IF ok THEN GitCommit(repo) ELSE repo
                     /\ autoSync' = IF ok THEN [autoSync EXCEPT !.commit = "sha"]
                                    ELSE autoSync
                     /\ failLog' = IF failed THEN fail(failLog, "Auto commit failed")
                                   ELSE failLog
                     /\ exitCode' = ExitAfter(exitCode, failed)
                     /\ issues' = IF failed THEN Append(issues, "Auto commit failed")
                                  ELSE issues
            ELSE /\ autoSync' = [autoSync EXCEPT !.commit = "no-changes"]
                 /\ UNCHANGED <<repo, gitLog, failLog, exitCode, issues>>
       ELSE UNCHANGED <<repo, autoSync, gitLog, failLog, exitCode, issues>>
    /\ pc' = "autoPush"
    /\ UNCHANGED <<aside, env, divergence, stashed, steps, brandAudit, tests, printed>>

\* the sha of the commit record not looked at
AutoPushApplies_AnyCommit(commit, autoPush) == commit # Undef /\ autoPush

\* if (autoSync.commit && autoSync.commit.sha && process.env.MAINT_AUTO_PUSH === '1')
AutoPushApplies(commit, autoPush) == commit = "sha" /\ autoPush

\* Auto push
AutoPush ==
    /\ pc = "autoPush"
    /\ IF AutoPushApplies(autoSync.commit, env.autoPush)
       THEN \E pushOk \in BOOLEAN :
            /\ gitLog' = Append(gitLog, Run("push", pushOk))
            /\ autoSync' = [autoSync EXCEPT !.push = pushOk]
            /\ failLog' = IF pushOk THEN failLog ELSE fail(failLog, "Auto push failed")
            /\ exitCode' = ExitAfter(exitCode, ~pushOk)
            /\ issues' = IF pushOk THEN issues ELSE Append(issues, "Auto push failed")
       ELSE UNCHANGED <<autoSync, gitLog, failLog, exitCode, issues>>
    /\ pc' = "stashRestore"
    /\ UNCHANGED <<aside, env, repo, divergence, stashed, steps, brandAudit, tests,
                   printed>>

\* a failed pop passed over in silence
PopIssue_Silent(popOk) == <<>>

\* if (pop.status !== 0) { summary.issues.push('Failed to pop stash'); }
PopIssue(popOk) == IF popOk THEN <<>> ELSE <<"Failed to pop stash">>

\* git stash pop
GitStashPop(r) == [r EXCEPT !.stash = r.stash - 1, !.dirty = TRUE]

\* Restore stashed changes; summary.steps.autoSync = autoSync
StashRestore ==
    /\ pc = "stashRestore"
    /\ IF stashed
       THEN \E popOk \in BOOLEAN :
            /\ gitLog' = Append(gitLog, Run("stash pop", popOk))
            /\ repo' = IF popOk THEN GitStashPop(repo) ELSE repo
            /\ issues' = issues \o PopIssue(popOk)
       ELSE UNCHANGED <<repo, gitLog, issues>>
    /\ steps' = [steps EXCEPT !["autoSync"] = "recorded"]
    /\ pc' = "engines"
    /\ UNCHANGED <<aside, env, divergence, autoSync, stashed, exitCode, failLog,
                   brandAudit, tests, printed>>

\* 1. Fetch upstream
Fetch ==
    /\ pc = "fetch"
    /\ \E ok \in BOOLEAN :
        /\ gitLog' = Append(gitLog, Run("fetch", ok))
        /\ steps' = [steps EXCEPT !["fetch"] = IF ok THEN "ok" ELSE "error"]
        /\ failLog' = IF ok THEN failLog ELSE fail(failLog, "git fetch upstream failed")
        /\ exitCode' = ExitAfter(exitCode, ~ok)
    /\ pc' = "divergence"
    /\ UNCHANGED <<aside, env, repo, divergence, autoSync, stashed, issues, brandAudit,
                   tests, printed>>

\* function versionTuple(v): the dot-separated numbers of a version
Versions == UNION {[1..n -> 0..MaxVer] : n \in 1..3}

\* pkg.engines.node / pkg.engines.npm: absent, or a version
Required == {None} \cup {Some(v) : v \in Versions}

\* (have[i] ?? 0)
VersionAt(v, i) == IF i <= Len(v) THEN v[i] ELSE 0

\* for (let i = 0; i < want.length; i++) { if ((have[i] ?? 0) < (want[i] ?? 0)) { engineOk = false; break; } }
EngineOk(want, have) == \A i \in 1..Len(want) : ~(VersionAt(have, i) < want[i])

\* if (requiredNode) { ... }
EnginePart(required, have) == required = None \/ EngineOk(required[1], have)

PartVerdicts == {EnginePart(r, h) : r \in Required, h \in Versions}

\* the values engineOk can take over the Node and the npm check
EngineVerdicts == {a /\ b : a \in PartVerdicts, b \in PartVerdicts}

\* let engineOk = true; if (requiredNode) { ... } if (requiredNpm) { ... }
EngineVerdict(v) ==
    EnginePart(v.requiredNode, v.actualNode) /\ EnginePart(v.requiredNpm, v.actualNpm)

\* 2. Engine verification.  JSON.parse of an unparsable package.json and
\* .stdout.trim() of an npm that could not be started throw: nothing catches
\* the exception and the process ends there.
Engines ==
    /\ pc = "engines"
    /\ \E npmStarted \in BOOLEAN,
          engineOk \in (IF versions = None THEN EngineVerdicts
                        ELSE {EngineVerdict(versions[1])}) :
        IF repo.pkg = "corrupt" \/ ~npmStarted
        THEN /\ pc' = "crashed"
             /\ exitCode' = 1
             /\ UNCHANGED <<steps, issues, failLog>>
        ELSE /\ pc' = "install"
             /\ steps' = [steps EXCEPT !["engines"] =
                              IF engineOk THEN "ok" ELSE "mismatch"]
             /\ issues' = IF engineOk THEN issues
                          ELSE IF env.allowEngineMismatch
                          THEN Append(issues, "Engine mismatch (ignored)")
                          ELSE Append(issues, "Engine versions below required.")
             /\ failLog' = IF ~engineOk /\ ~env.allowEngineMismatch
                           THEN fail(failLog, "Engine mismatch") ELSE failLog
             /\ exitCode' = ExitAfter(exitCode, ~engineOk /\ ~env.allowEngineMismatch)
    /\ UNCHANGED <<aside, env, repo, divergence, autoSync, stashed, gitLog, brandAudit,
                   tests, printed>>

\* 3. Optional clean install
Install ==
    /\ pc = "install"
    /\ IF env.cleanInstall
       THEN \E rmOk \in BOOLEAN, installOk \in BOOLEAN :
            /\ failLog' = (IF rmOk THEN failLog
                           ELSE fail(failLog, "Failed to remove node_modules"))
                          \o (IF installOk THEN <<>> ELSE <<"npm install failed">>)
            /\ exitCode' = ExitAfter(exitCode, ~rmOk \/ ~installOk)
            /\ steps' = [steps EXCEPT !["install"] = IF installOk THEN "ok" ELSE "error"]
       ELSE /\ steps' = [steps EXCEPT !["install"] = "skipped"]
            /\ UNCHANGED <<failLog, exitCode>>
    /\ pc' = "compile"
    /\ UNCHANGED <<aside, env, repo, divergence, autoSync, stashed, issues, gitLog,
                   brandAudit, tests, printed>>

\* 4. Build / compile
Compile ==
    /\ pc = "compile"
    /\ \E ok \in BOOLEAN :
        /\ steps' = [steps EXCEPT !["compile"] = IF ok THEN "ok" ELSE "error"]
        /\ failLog' = IF ok THEN failLog ELSE fail(failLog, "Compile failed")
        /\ exitCode' = ExitAfter(exitCode, ~ok)
    /\ pc' = "brandAudit"
    /\ UNCHANGED <<aside, env, repo, divergence, autoSync, stashed, issues, gitLog,
                   brandAudit, tests, printed>>

\* function allowList(): paths as their segments; dir marks the entries ending
\* with '/', which are directory prefixes
AllowFile(segs) == [dir |-> FALSE, segs |-> segs]
AllowDir(segs) == [dir |-> TRUE, segs |-> segs]

allowList ==
    {AllowFile(<<"src", "extension", "conversation", "vscode-node", "chatParticipants.ts">>),
     AllowFile(<<"src", "extension", "review", "node", "githubReviewAgent.ts">>),
     AllowFile(<<"src", "extension", "log", "vscode-node", "loggingActions.ts">>),
     AllowFile(<<"src", "platform", "survey", "vscode", "surveyServiceImpl.ts">>),
     AllowFile(<<"src", "platform", "image", "common", "imageService.ts">>),
     AllowFile(<<"src", "brand", "common", "brandConfig.ts">>),
     AllowFile(<<"src", "brand", "brandConfig.ts">>),
     AllowDir(<<"src", "extension", "test", "node", "fixtures", "gitdiff">>),
     AllowDir(<<"src", "extension", "mcp", "test", "vscode-node", "fixtures", "snapshots">>),
     AllowFile(<<"package.nls.json">>),
     AllowFile(<<"package.json">>)}

IsPrefix(a, b) == Len(a) <= Len(b) /\ SubSeq(b, 1, Len(a)) = a

\* a line is allow-listed by the file entries alone
Allowed_FilesOnly(line) == \E e \in allowList : ~e.dir /\ line = e.segs

\* l.startsWith(path) for a directory entry, l.startsWith(path + ':') for a
\* file entry; a line is the path of the matching file, then ':' and the text
Allowed(line) ==
    \E e \in allowList :
        IF e.dir THEN IsPrefix(e.segs, line) /\ Len(line) > Len(e.segs)
        ELSE line = e.segs

\* the files grep can report a match in
GrepPaths ==
    {<<"package.json">>,
     <<"src", "brand", "brandConfig.ts">>,
     <<"src", "extension", "test", "node", "fixtures", "gitdiff", "a.diff">>,
     <<"src", "extension", "test", "node", "fixtures">>,
     <<"src", "extension", "agents", "agent.ts">>}

GrepOutputs == UNION {[1..n -> GrepPaths] : n \in 0..MaxLines}

\* const stray = lines.filter(l => !allowList().some(...))
Stray(lines) == SelectSeq(lines, LAMBDA l : ~Allowed(l))

\* 5. Brand audit.  lines is grep.stdout split into its non-empty lines: any
\* output of the grep, or the output grepOut holds when it is set
BrandAudit ==
    /\ pc = "brandAudit"
    /\ \E lines \in (IF grepOut = None THEN GrepOutputs ELSE {grepOut[1]}) :
        /\ issues' = IF Len(Stray(lines)) > 0
                     THEN Append(issues, "Stray brand literals found") ELSE issues
        /\ brandAudit' = Some([total |-> Len(lines), stray |-> Len(Stray(lines))])
    /\ steps' = [steps EXCEPT !["brandAudit"] = "recorded"]
    /\ pc' = "unitTests"
    /\ UNCHANGED <<aside, env, repo, divergence, autoSync, stashed, exitCode, failLog,
                   gitLog, tests, printed>>

\* ------------------------------------------------------------- unit tests
\* The captured output of a test process: stdout and stderr, each a sequence
\* of text fragments.  "Channel " directly followed by "closed" reads
\* 'Channel closed'; "channel closed" is the same phrase in lower case.
Out(stdout, stderr) == [stdout |-> stdout, stderr |-> stderr]

Has(text, frag) == \E i \in DOMAIN text : text[i] = frag
HasPhrase(text, a, b) == \E i \in 1..(Len(text) - 1) : text[i] = a /\ text[i + 1] = b

\* /Channel closed|ERR_IPC_CHANNEL_CLOSED|segmentation fault|SIGSEGV/i
CrashSignature(text) ==
    \/ HasPhrase(text, "Channel ", "closed")
    \/ Has(text, "channel closed")
    \/ Has(text, "ERR_IPC_CHANNEL_CLOSED")
    \/ Has(text, "segmentation fault")
    \/ Has(text, "SIGSEGV")

\* /0\/?0\s+tests?/i on one fragment: the pattern is not anchored, so it also
\* matches inside a longer number ("100 tests" contains "00 tests")
ZeroRe(frag) == frag \in {"0/0 tests", "100 tests"}

\* /0\/?0\s+tests?/i.test(out) && /Duration/.test(out)
ZeroTests(text) == (\E i \in DOMAIN text : ZeroRe(text[i])) /\ Has(text, "Duration")

\* /Channel closed|ERR_IPC_CHANNEL_CLOSED/ (case-sensitive)
IpcClosed(text) ==
    \/ HasPhrase(text, "Channel ", "closed")
    \/ Has(text, "ERR_IPC_CHANNEL_CLOSED")

\* function classifyInfraFailure(res): looks at stdout + stderr
classifyInfraFailure(res) ==
    LET out == res.out.stdout \o res.out.stderr
    IN  CrashSignature(out) \/ ZeroTests(out)

\* the second-chance test looking at the text the classification looked at
TransientIpc_AsClassified(res) == IpcClosed(res.out.stdout \o res.out.stderr)

\* the second-chance test of line 549: looks at stderr + stdout
TransientIpc(res) == IpcClosed(res.out.stderr \o res.out.stdout)

\* what a passing and a failing vitest run can print
PassOutput == Out(<<"1/1 tests", "Duration">>, <<>>)
FailOutputs ==
    {Out(<<"AssertionError", "Duration">>, <<>>),
     Out(<<"Duration">>, <<"ERR_IPC_CHANNEL_CLOSED">>),
     Out(<<"closed">>, <<"Channel ">>)}

\* the results run('npx', vitestCmd(pool)) can return
TestResults ==
    {[status |-> 0, out |-> PassOutput]} \cup [status : {1}, out : FailOutputs]

\* const primaryPool = desiredPool || 'forks'
PrimaryPool(desiredPool) == IF desiredPool = "" THEN "forks" ELSE desiredPool

\* the retry sent to the pool that has just crashed
FallbackPool_Same(primaryPool) == primaryPool

\* const fallbackPool = primaryPool === 'forks' ? 'threads' : 'forks'
FallbackPool(primaryPool) == IF primaryPool = "forks" THEN "threads" ELSE "forks"

\* function runVitest(pool, label): the object one attempt returns
Attempt(pool, label, res) == [pool |-> pool, label |-> label, res |-> res]

\* 6. Unit tests: MAINT_SKIP_TESTS, else the primary attempt
TestAttempt1 ==
    /\ pc = "unitTests"
    /\ IF env.skipTests
       THEN /\ steps' = [steps EXCEPT !["unitTests"] = "skipped"]
            /\ pc' = "namespaceStrict"
            /\ UNCHANGED tests
       ELSE \E res \in TestResults :
            LET infra == res.status # 0 /\ classifyInfraFailure(res)
                a == Attempt(PrimaryPool(env.desiredPool), "attempt 1", res)
            IN  /\ tests' = [tests EXCEPT
                                !.result = Some(a),
                                !.infraFailure = infra,
                                !.attempts = Append(@, a)]
                /\ pc' = IF res.status = 0 THEN "testOutcome"
                         ELSE IF infra /\ ~env.disableFallback THEN "testFallback"
                         ELSE "testRetry"
                /\ UNCHANGED steps
    /\ UNCHANGED <<aside, env, repo, divergence, autoSync, stashed, issues, exitCode,
                   failLog, gitLog, brandAudit, printed>>

\* the fallback pool after an infrastructure failure in the primary pool
TestFallback ==
    /\ pc = "testFallback"
    /\ \E fallback \in TestResults :
        LET a == Attempt(FallbackPool(PrimaryPool(env.desiredPool)),
                         "fallback attempt", fallback)
        IN  tests' = [tests EXCEPT
                        !.flakyRecovered = (fallback.status = 0),
                        !.infraFailure = TRUE,
                        !.result = IF fallback.status = 0 \/ classifyInfraFailure(fallback)
                                   THEN Some(a) ELSE @,
                        !.attempts = Append(@, a)]
    /\ pc' = "testRetry"
    /\ UNCHANGED <<aside, env, repo, divergence, autoSync, stashed, steps, issues,
                   exitCode, failLog, gitLog, brandAudit, printed>>

\* if (!flakyRecovered && !infraFailure && /Channel closed|.../.test(...))
RetryApplies(t) ==
    ~t.flakyRecovered /\ ~t.infraFailure /\ TransientIpc(t.result[1].res)

\* Second chance retry in same pool if not infra but maybe flaky
TestRetry ==
    /\ pc = "testRetry"
    /\ IF RetryApplies(tests)
       THEN \E retry \in TestResults :
            LET a == Attempt(PrimaryPool(env.desiredPool), "attempt 2", retry)
            IN  tests' = [tests EXCEPT
                            !.flakyRecovered = (retry.status = 0),
                            !.result = IF retry.status = 0 THEN Some(a) ELSE @,
                            !.attempts = Append(@, a)]
       ELSE UNCHANGED tests
    /\ pc' = "testOutcome"
    /\ UNCHANGED <<aside, env, repo, divergence, autoSync, stashed, steps, issues,
                   exitCode, failLog, gitLog, brandAudit, printed>>

\* summary.steps.unitTests
UnitTestOutcome(t) ==
    IF t.result[1].res.status = 0
    THEN (IF t.flakyRecovered THEN "ok(flaky)" ELSE "ok")
    ELSE (IF t.infraFailure THEN "infra-failed" ELSE "error")

\* a tolerated infrastructure failure leaves no issue
UnitTestIssue_ToleratedSilent(outcome, tolerated) ==
    IF outcome = "ok" THEN <<>>
    ELSE IF outcome = "ok(flaky)" THEN <<"Flaky tests recovered">>
    ELSE IF outcome = "infra-failed"
    THEN (IF tolerated THEN <<>> ELSE <<"Unit test infrastructure failure">>)
    ELSE <<"Unit tests failed">>

UnitTestIssue(outcome, tolerated) ==
    IF outcome = "ok" THEN <<>>
    ELSE IF outcome = "ok(flaky)" THEN <<"Flaky tests recovered">>
    ELSE IF outcome = "infra-failed"
    THEN (IF tolerated THEN <<"Unit test infra failure tolerated">>
          ELSE <<"Unit test infrastructure failure">>)
    ELSE <<"Unit tests failed">>

\* the tolerance flag applied to genuine failures as well
UnitTestFail_ErrorTolerated(outcome, tolerated) ==
    IF outcome \in {"infra-failed", "error"} /\ ~tolerated
    THEN <<IF outcome = "error" THEN "Unit tests failed"
           ELSE "Unit test infrastructure failure">>
    ELSE <<>>

UnitTestFail(outcome, tolerated) ==
    IF outcome = "infra-failed" /\ ~tolerated THEN <<"Unit test infrastructure failure">>
    ELSE IF outcome = "error" THEN <<"Unit tests failed">>
    ELSE <<>>

\* the outcome of the unit-test step
TestOutcome ==
    /\ pc = "testOutcome"
    /\ LET outcome == UnitTestOutcome(tests)
       IN  /\ steps' = [steps EXCEPT !["unitTests"] = outcome]
           /\ issues' = issues \o UnitTestIssue(outcome, env.tolerateTestFlake)
           /\ failLog' = failLog \o UnitTestFail(outcome, env.tolerateTestFlake)
           /\ exitCode' = ExitAfter(exitCode,
                                    UnitTestFail(outcome, env.tolerateTestFlake) # <<>>)
    /\ pc' = "namespaceStrict"
    /\ UNCHANGED <<aside, env, repo, divergence, autoSync, stashed, gitLog, brandAudit,
                   tests, printed>>

\* 7. Namespace strict mode compile
NamespaceStrict ==
    /\ pc = "namespaceStrict"
    /\ \E ok \in BOOLEAN :
        /\ steps' = [steps EXCEPT !["namespaceStrict"] = IF ok THEN "ok" ELSE "error"]
        /\ failLog' = IF ok THEN failLog
                      ELSE fail(failLog, "Strict namespace compile failed")
        /\ exitCode' = ExitAfter(exitCode, ~ok)
    /\ pc' = "summary"
    /\ UNCHANGED <<aside, env, repo, divergence, autoSync, stashed, issues, gitLog,
                   brandAudit, tests, printed>>

\* the issues list not looked at
FinalExit_IgnoreIssues(code, iss) == code

\* if (process.exitCode && process.exitCode !== 0) ... else if (summary.issues.length)
\* process.exitCode = 1
FinalExit(code, iss) ==
    IF code # 0 THEN code ELSE IF Len(iss) > 0 THEN 1 ELSE 0

\* Emit JSON summary; the exit status
Summary ==
    /\ pc = "summary"
    /\ printed' = TRUE
    /\ exitCode' = FinalExit(exitCode, issues)
    /\ pc' = "done"
    /\ UNCHANGED <<aside, env, repo, divergence, autoSync, stashed, steps, issues,
                   failLog, gitLog, brandAudit, tests>>

TestNext == TestAttempt1 \/ TestFallback \/ TestRetry \/ TestOutcome

TailNext ==
    \/ Engines
    \/ Install
    \/ Compile
    \/ BrandAudit
    \/ TestNext
    \/ NamespaceStrict
    \/ Summary

SyncNext ==
    \/ Divergence
    \/ DirtyGate
    \/ SyncAttempt
    \/ InlineResolve
    \/ FallbackMerge
    \/ ConflictBlock
    \/ AutoCommit
    \/ AutoPush
    \/ StashRestore

Next == SyncNext

\* The sync orchestrator: a run with MAINT_AUTO_REBASE=1 whose fetch succeeded,
\* from the divergence measurement to the end of the sync block.
Spec == Init /\ [][Next]_vars

\* The sync orchestrator with MAINT_UPSTREAM_BRANCH set or not: upstream/main
\* and the configured reference are two references of the repository, each
\* resolvable or not and each with its own behind-count.
RefEnvs ==
    [autoRebase : {TRUE}, strategy : Strategies, upstreamRef : Refs,
     tolerateConflict : BOOLEAN, allowDirty : BOOLEAN, stashDirty : BOOLEAN,
     preSyncAutoCommit : {FALSE}, noVerify : {FALSE}, fallbackToMerge : BOOLEAN,
     autoResolvePackageJson : {FALSE}, autoCommit : {FALSE}, autoPush : {FALSE},
     allowEngineMismatch : {FALSE}, cleanInstall : {FALSE}, skipTests : {FALSE},
     desiredPool : {""}, disableFallback : {FALSE}, tolerateTestFlake : {FALSE}]

RefInit ==
    /\ pc = "divergence"
    /\ env \in RefEnvs
    /\ \E dirty \in BOOLEAN, ahead \in 0..MaxAhead, refs \in [Refs -> RefStates] :
          repo = RepoInit(dirty, ahead, refs)
    /\ divergence = None
    /\ autoSync = AutoSyncInit
    /\ stashed = FALSE
    /\ steps = [StepsInit EXCEPT !["fetch"] = "ok"]
    /\ issues = <<>>
    /\ exitCode = 0
    /\ failLog = <<>>
    /\ gitLog = <<Run("fetch", TRUE)>>
    /\ brandAudit = None
    /\ tests = TestsInit
    /\ printed = FALSE
    /\ AsideIdle

RefSpec == RefInit /\ [][SyncNext]_vars

\* The whole script, from the fetch to the exit status.
RunInit ==
    /\ pc = "fetch"
    /\ env \in RunEnvs
    /\ \E dirty \in BOOLEAN, ahead \in {MaxAhead}, main \in RefStates :
          repo = RepoInit(dirty, ahead,
                          [r \in Refs |-> IF r = DefaultRef THEN main
                                          ELSE [ok |-> FALSE, behind |-> 0]])
    /\ divergence = None
    /\ autoSync = AutoSyncInit
    /\ stashed = FALSE
    /\ steps = StepsInit
    /\ issues = <<>>
    /\ exitCode = 0
    /\ failLog = <<>>
    /\ gitLog = <<>>
    /\ brandAudit = None
    /\ tests = TestsInit
    /\ printed = FALSE
    /\ AsideIdle

RunNext == Fetch \/ SyncNext \/ TailNext

RunSpec == RunInit /\ [][RunNext]_vars

\* The unit-test block alone: the script has reached it without auto-sync, with
\* the compile step having passed or failed and the audit clean or not.
TestInit ==
    /\ pc = "unitTests"
    /\ env \in TestEnvs
    /\ repo = RepoInit(FALSE, 0, [r \in Refs |-> [ok |-> r = DefaultRef, behind |-> 0]])
    /\ divergence = Some([behind |-> 0, ahead |-> 0])
    /\ autoSync = AutoSyncInit
    /\ stashed = FALSE
    /\ \E compileOk \in BOOLEAN, stray \in 0..MaxLines :
        /\ steps = [StepsInit EXCEPT !["fetch"] = "ok", !["divergence"] = "measured",
                                     !["engines"] = "ok", !["install"] = "skipped",
                                     !["compile"] = IF compileOk THEN "ok" ELSE "error",
                                     !["brandAudit"] = "recorded"]
        /\ failLog = IF compileOk THEN <<>> ELSE <<"Compile failed">>
        /\ exitCode = IF compileOk THEN 0 ELSE 1
        /\ issues = IF stray > 0 THEN <<"Stray brand literals found">> ELSE <<>>
        /\ brandAudit = Some([total |-> stray, stray |-> stray])
    /\ gitLog = <<Run("fetch", TRUE)>>
    /\ tests = TestsInit
    /\ printed = FALSE
    /\ AsideIdle

TestSpec == TestInit /\ [][TestNext]_vars

\* Engine verification alone: the script has reached it without auto-sync;
\* versions holds the versions package.json requires and the three-part
\* versions process.version and npm -v report.
EngineInit ==
    /\ pc = "engines"
    /\ env \in {e \in RunEnvs : ~e.autoRebase /\ ~e.cleanInstall /\ ~e.tolerateTestFlake}
    /\ repo = RepoInit(FALSE, 0, [r \in Refs |-> [ok |-> r = DefaultRef, behind |-> 0]])
    /\ divergence = Some([behind |-> 0, ahead |-> 0])
    /\ autoSync = AutoSyncInit
    /\ stashed = FALSE
    /\ steps = [StepsInit EXCEPT !["fetch"] = "ok", !["divergence"] = "measured"]
    /\ issues = <<>>
    /\ exitCode = 0
    /\ failLog = <<>>
    /\ gitLog = <<Run("fetch", TRUE)>>
    /\ brandAudit = None
    /\ tests = TestsInit
    /\ printed = FALSE
    /\ manifest = None
    /\ grepOut = None
    /\ welcome = None
    /\ \E rn \in Required, rp \in Required,
          an \in [1..3 -> 0..MaxVer], ap \in [1..3 -> 0..MaxVer] :
        versions = Some([requiredNode |-> rn, requiredNpm |-> rp,
                         actualNode |-> an, actualNpm |-> ap])

EngineSpec == EngineInit /\ [][Engines]_vars

\* The brand audit alone: the script has reached it with the engine check and
\* the compile step having passed or failed, and the output of the grep is
\* held in grepOut.
AuditLines == UNION {[1..n -> GrepPaths] : n \in 0..(MaxLines + 1)}

AuditInit ==
    /\ pc = "brandAudit"
    /\ env \in {e \in TestEnvs : ~e.skipTests /\ e.desiredPool = ""
                                  /\ ~e.disableFallback /\ ~e.tolerateTestFlake}
    /\ repo = RepoInit(FALSE, 0, [r \in Refs |-> [ok |-> r = DefaultRef, behind |-> 0]])
    /\ divergence = Some([behind |-> 0, ahead |-> 0])
    /\ autoSync = AutoSyncInit
    /\ stashed = FALSE
    /\ \E compileOk \in BOOLEAN, engineOk \in BOOLEAN :
        /\ steps = [StepsInit EXCEPT !["fetch"] = "ok", !["divergence"] = "measured",
                                     !["engines"] = IF engineOk THEN "ok" ELSE "mismatch",
                                     !["install"] = "skipped",
                                     !["compile"] = IF compileOk THEN "ok" ELSE "error"]
        /\ failLog = (IF engineOk THEN <<>> ELSE <<"Engine mismatch">>)
                      \o (IF compileOk THEN <<>> ELSE <<"Compile failed">>)
        /\ exitCode = IF compileOk /\ engineOk THEN 0 ELSE 1
        /\ issues = IF engineOk THEN <<>> ELSE <<"Engine versions below required.">>
    /\ gitLog = <<Run("fetch", TRUE)>>
    /\ brandAudit = None
    /\ tests = TestsInit
    /\ printed = FALSE
    /\ manifest = None
    /\ welcome = None
    /\ versions = None
    /\ \E lines \in AuditLines : grepOut = Some(lines)

AuditNext == BrandAudit

AuditSpec == AuditInit /\ [][AuditNext]_vars

\* classifyInfraFailure on its own: the text fragments a test process can
\* print, and the captured outputs made of them
Fragments ==
    {"Channel ", "closed", "channel closed", "ERR_IPC_CHANNEL_CLOSED",
     "segmentation fault", "SIGSEGV", "0/0 tests", "100 tests", "Duration",
     "AssertionError"}

Texts == UNION {[1..n -> Fragments] : n \in 0..MaxFrags}

ClassifyInputs == [status : {0, 1}, out : {Out(o, e) : o \in Texts, e \in Texts}]

ClassifyInit ==
    /\ pc = "classify"
    /\ env \in {e \in TestEnvs : ~e.skipTests /\ e.desiredPool = ""
                                  /\ ~e.disableFallback /\ ~e.tolerateTestFlake}
    /\ repo = RepoInit(FALSE, 0, [r \in Refs |-> [ok |-> r = DefaultRef, behind |-> 0]])
    /\ divergence = Some([behind |-> 0, ahead |-> 0])
    /\ autoSync = AutoSyncInit
    /\ stashed = FALSE
    /\ steps = StepsInit
    /\ issues = <<>>
    /\ exitCode = 0
    /\ failLog = <<>>
    /\ gitLog = <<>>
    /\ brandAudit = None
    /\ \E res \in ClassifyInputs :
          tests = [TestsInit EXCEPT !.result = Some(Attempt("forks", "attempt 1", res))]
    /\ printed = FALSE
    /\ AsideIdle

\* infraFailure = classifyInfraFailure(result)
Classify ==
    /\ pc = "classify"
    /\ tests' = [tests EXCEPT !.infraFailure = classifyInfraFailure(tests.result[1].res)]
    /\ pc' = "classified"
    /\ UNCHANGED <<aside, env, repo, divergence, autoSync, stashed, steps, issues,
                   exitCode, failLog, gitLog, brandAudit, printed>>

ClassifySpec == ClassifyInit /\ [][Classify]_vars

\* ------------------------------------------------- JSON merge resolver
\* A document is a function from its top-level keys to their values; the value
\* of a dependency section is a function from package names to versions.
Sections == <<"dependencies", "devDependencies", "optionalDependencies",
              "peerDependencies">>
SectionSet == {Sections[i] : i \in DOMAIN Sections}

\* keys every object inherits from Object.prototype: k in obj is true for them
ProtoKeys == {"constructor"}
DepKeys == {"left-pad", "constructor"}
Vers == {"1.0.0", "2.0.0"}
DepObjs == UNION {[K -> Vers] : K \in SUBSET DepKeys}

EmptyDoc == [k \in {} |-> k]
Put(doc, k, v) == [x \in DOMAIN doc \cup {k} |-> IF x = k THEN v ELSE doc[x]]
Delete(doc, k) == [x \in DOMAIN doc \ {k} |-> doc[x]]
Join(d1, d2) == [x \in DOMAIN d1 \cup DOMAIN d2 |-> IF x \in DOMAIN d1 THEN d1[x] ELSE d2[x]]

\* (k in merged[sect])
In(k, obj) == k \in DOMAIN obj \/ k \in ProtoKeys

\* local's entries written over remote's
MergeSection_LocalWins(m, loc) == Join(loc, m)

\* for (const [k,v] of Object.entries(local[sect])) { if (!(k in merged[sect])) merged[sect][k] = v; }
MergeSection(m, loc) ==
    [k \in DOMAIN m \cup {x \in DOMAIN loc : ~In(x, m)} |->
        IF k \in DOMAIN m THEN m[k] ELSE loc[k]]

\* if (local[sect]) { merged[sect] = merged[sect] || {}; ... }
MergeStep(merged, local, sect) ==
    IF sect \in DOMAIN local
    THEN Put(merged, sect,
             MergeSection(IF sect \in DOMAIN merged THEN merged[sect] ELSE EmptyDoc,
                          local[sect]))
    ELSE merged

RECURSIVE MergeLoop(_, _, _)
\* for (const sect of ['dependencies', 'devDependencies', ...])
MergeLoop(merged, local, i) ==
    IF i > Len(Sections) THEN merged
    ELSE MergeLoop(MergeStep(merged, local, Sections[i]), local, i + 1)

\* the merge started from nothing
StartDoc_Empty(remote) == EmptyDoc

\* const merged = { ...remote }
StartDoc(remote) == remote

\* the brand fields left in the merged document
MergeJson_KeepBrand(local, remote) == MergeLoop(StartDoc(remote), local, 1)

\* the merge started from local's top-level keys under remote's
MergeJson_LocalBase(local, remote) ==
    Delete(Delete(MergeLoop(Join(remote, local), local, 1), "displayName"), "icon")

\* merge_json / the generated driver / the inline merge: the merged document
MergeJson(local, remote) ==
    Delete(Delete(MergeLoop(StartDoc(remote), local, 1), "displayName"), "icon")

\* a file or index stage: a document, unparsable text, or nothing there
Raw(kind, doc) == [kind |-> kind, doc |-> doc]
Missing == Raw("missing", EmptyDoc)
Unparsable == Raw("unparsable", EmptyDoc)

\* the three places the resolver is implemented in
Entries == {"packageJsonBrand.sh", "generated driver", "inline"}

\* function read(path){try{return JSON.parse(fs.readFileSync(path,'utf8'));}catch{return {};}}
\* and safeRead of the generated driver
read(raw) == IF raw.kind = "doc" THEN raw.doc ELSE EmptyDoc

\* readStage gives '{}' for a stage git show cannot read; JSON.parse of the
\* inline merge is not guarded: unparsable text makes it throw
InlineThrows(local, remote) == local.kind = "unparsable" \/ remote.kind = "unparsable"

\* whether the entry point gets as far as writing a merged document
Produces(entry, local, remote) == entry # "inline" \/ ~InlineThrows(local, remote)

\* ----------------------------------------------- manifest overlay applier
BrandNames == {"SWE Agent Chat", "SWE Agent Pro"}
DisplayNames == BrandNames \cup {"GitHub Copilot Chat", ""}
Descriptions == {"", "AI by Copilot", "AI by SWE Agent"}
DefaultDescription == "AI chat features for software engineers"

\* only the exact name taken for the brand
Branded_ExactName(doc) ==
    "displayName" \in DOMAIN doc /\ doc["displayName"] = "SWE Agent Chat"

\* original.displayName && original.displayName.startsWith('SWE Agent')
Branded(doc) == "displayName" \in DOMAIN doc /\ doc["displayName"] \in BrandNames

\* description.replace(/Copilot/gi, 'SWE Agent')
ReplaceCopilot(d) == IF d = "AI by Copilot" THEN "AI by SWE Agent" ELSE d

\* original.description?.replace(/Copilot/gi, 'SWE Agent') || 'AI chat features ...'
OverlayDescription(doc) ==
    IF "description" \in DOMAIN doc /\ ReplaceCopilot(doc["description"]) # ""
    THEN ReplaceCopilot(doc["description"]) ELSE DefaultDescription

\* const merged = { ...original, ...overlay }
OverlayDoc(original) ==
    Put(Put(Put(original, "displayName", "SWE Agent Chat"),
            "description", OverlayDescription(original)),
        "icon", "assets/agent.png")

\* the documents the resolver and the overlay are run on
SectionParts == {EmptyDoc} \cup {s :> o : s \in SectionSet, o \in DepObjs}
NameParts(names) == {EmptyDoc} \cup {"displayName" :> n : n \in names}
IconParts == {EmptyDoc, "icon" :> "assets/copilot.png"}
DescriptionParts(ds) == {EmptyDoc} \cup {"description" :> d : d \in ds}

LocalDocs ==
    {Join(Join(sp, dn), ds) :
        sp \in SectionParts, dn \in NameParts({"SWE Agent Chat"}),
        ds \in DescriptionParts({"AI by SWE Agent"})}
RemoteDocs ==
    {Join(Join(sp, dn), Join(ic, ds)) :
        sp \in SectionParts, dn \in NameParts({"SWE Agent Chat", "GitHub Copilot Chat"}),
        ic \in IconParts, ds \in DescriptionParts({"AI by Copilot"})}
ManifestDocs ==
    {Join(dn, Join(ic, ds)) :
        dn \in NameParts(DisplayNames), ic \in IconParts, ds \in DescriptionParts(Descriptions)}

Raws(docs) == {Missing, Unparsable} \cup {Raw("doc", d) : d \in docs}

\* the file the resolver writes to: the driver overwrites %A, which holds
\* local's text; the inline merge overwrites the package.json of the working
\* tree, which holds conflict markers
ResultFile(entry, local) == IF entry = "inline" THEN Unparsable ELSE local

ManifestInit ==
    /\ pc \in {"resolve", "overlay"}
    /\ env \in {e \in TestEnvs : ~e.skipTests /\ e.desiredPool = ""
                                  /\ ~e.disableFallback /\ ~e.tolerateTestFlake}
    /\ repo = RepoInit(FALSE, 0, [r \in Refs |-> [ok |-> r = DefaultRef, behind |-> 0]])
    /\ divergence = None
    /\ autoSync = AutoSyncInit
    /\ stashed = FALSE
    /\ steps = StepsInit
    /\ issues = <<>>
    /\ exitCode = 0
    /\ failLog = <<>>
    /\ gitLog = <<>>
    /\ brandAudit = None
    /\ tests = TestsInit
    /\ printed = FALSE
    /\ grepOut = None
    /\ welcome = None
    /\ versions = None
    /\ IF pc = "resolve"
       THEN \E entry \in Entries, local \in Raws(LocalDocs), remote \in Raws(RemoteDocs) :
            manifest = Some([entry |-> entry, local |-> local, remote |-> remote,
                             start |-> ResultFile(entry, local),
                             file |-> ResultFile(entry, local),
                             merged |-> None, once |-> None, writes |-> 0])
       ELSE \E file \in Raws(ManifestDocs) :
            manifest = Some([entry |-> "none", local |-> Missing, remote |-> Missing,
                             start |-> file, file |-> file,
                             merged |-> None, once |-> None, writes |-> 0])

\* one run of a resolver entry point on local and remote
Resolve ==
    /\ pc = "resolve"
    /\ LET m == manifest[1]
           merged == MergeJson(read(m.local), read(m.remote))
       IN  manifest' =
              IF Produces(m.entry, m.local, m.remote)
              THEN Some([m EXCEPT !.file = Raw("doc", merged), !.merged = Some(merged)])
              ELSE manifest
    /\ pc' = "overlay"
    /\ UNCHANGED <<grepOut, welcome, versions, env, repo, divergence, autoSync, stashed, steps,
                   issues, exitCode, failLog, gitLog, brandAudit, tests, printed>>

\* applyManifestOverlay.cjs main(): JSON.parse of an unparsable or missing
\* manifest throws and nothing is written
Overlay ==
    /\ pc \in {"overlay", "overlayAgain"}
    /\ LET m == manifest[1]
           skip == m.file.kind # "doc" \/ Branded(m.file.doc)
           after == IF skip THEN m.file ELSE Raw("doc", OverlayDoc(m.file.doc))
       IN  manifest' = Some([m EXCEPT
                                !.file = after,
                                !.writes = IF skip THEN @ ELSE @ + 1,
                                !.once = IF pc = "overlay" THEN Some(after) ELSE @])
    /\ pc' = IF pc = "overlay" THEN "overlayAgain" ELSE "end"
    /\ UNCHANGED <<grepOut, welcome, versions, env, repo, divergence, autoSync, stashed, steps,
                   issues, exitCode, failLog, gitLog, brandAudit, tests, printed>>

ManifestNext == Resolve \/ Overlay

\* The resolver entry points on every pair of documents, then the overlay
\* applier run twice on what they wrote; and the overlay applier run twice on
\* a manifest taken as it is.
ManifestSpec == ManifestInit /\ [][ManifestNext]_vars

\* ------------------------------------------------------ sync orchestrator
Ran(cmd) == \E i \in DOMAIN gitLog : gitLog[i].cmd = cmd
RanOk(cmd) == \E i \in DOMAIN gitLog : gitLog[i] = Run(cmd, TRUE)
Times(cmd) == Cardinality({i \in DOMAIN gitLog : gitLog[i].cmd = cmd})
Failed(msg) == \E i \in DOMAIN failLog : failLog[i] = msg
HasIssue(msg) == \E i \in DOMAIN issues : issues[i] = msg

SyncDone == pc = "engines" /\ env.autoRebase
DirtyAbortTaken == Failed("Dirty working tree blocks auto rebase.")
ConflictReported ==
    HasIssue("Upstream sync conflict") \/ HasIssue("Upstream sync conflict (tolerated)")
InlineSucceeded == RanOk("rebase --continue")
FallbackMergeSucceeded == env.strategy = "rebase" /\ RanOk("merge")
BehindZero == divergence # None /\ divergence[1].behind = 0
SyncCmds == {"rebase", "merge", "rebase --continue", "rebase --abort",
             "merge --abort", "add package.json"}

\* C1: when auto-sync is enabled and the working tree is dirty with none of
\* pre-sync auto-commit, stash or allow-dirty set, the run is marked fatal, the
\* final sync result is 'dirty-abort' and no further git operation is run.
C1_DirtyAbortStopsSync ==
    (SyncDone /\ DirtyAbortTaken) =>
        /\ exitCode = 1
        /\ autoSync.result = "dirty-abort"
        /\ gitLog = <<Run("fetch", TRUE)>>

\* C2: a sync conflict is reported only when every enabled attempt (initial
\* rebase/merge, inline resolution, merge fallback) has failed; a run in which
\* one of them succeeded records no conflict issue and no conflict paths.
C2_ConflictOnlyAfterAllFailed ==
    (ConflictReported \/ autoSync.conflicts # None) =>
        /\ ~autoSync.performed
        /\ ~RanOk("rebase") /\ ~RanOk("merge") /\ ~RanOk("rebase --continue")

\* C3: when the initial rebase fails and the inline resolution succeeds (git
\* rebase --continue exits 0), the final sync result is 'ok' and the merge
\* fallback (rebase --abort, merge) is not taken.
C3_InlineSuccessKeepsRebase ==
    (SyncDone /\ InlineSucceeded) =>
        /\ autoSync.result = "ok"
        /\ ~Ran("rebase --abort")
        /\ ~Ran("merge")

\* C4: whenever the sync step ends in a conflict, neither a rebase nor a merge
\* is left in progress when the step finishes.
C4_ConflictLeavesNothingInProgress ==
    (SyncDone /\ autoSync.result = "conflict") => repo.inProgress = "none"

\* C5 (as stated): with a measured behind-count of 0 the result is 'up-to-date'
\* and no git mutation at all is performed, whatever the working tree and the
\* dirty-tree flags are.
C5_UpToDateNoMutation ==
    (SyncDone /\ BehindZero) =>
        /\ autoSync.result = "up-to-date"
        /\ gitLog = <<Run("fetch", TRUE)>>

\* C5 (amended): with a measured behind-count of 0 the result is 'up-to-date',
\* no rebase, merge, continue or abort is run, no post-sync auto-commit and no
\* push is attempted even with MAINT_AUTO_COMMIT=1 and MAINT_AUTO_PUSH=1; the
\* only git mutations are those of the dirty-tree gate: the pre-sync add and
\* commit under MAINT_PRE_SYNC_AUTOCOMMIT=1, or the stash push and its pop
\* under MAINT_STASH_DIRTY=1.
C5_UpToDateOnlyGateMutations ==
    (BehindZero /\ pc \notin {"divergence", "dirtyGate", "sync"}) =>
        /\ autoSync.result = "up-to-date"
        /\ \A c \in SyncCmds : ~Ran(c)
        /\ ~Ran("push")
        /\ autoSync.commit = Undef
        /\ Times("add -A") <= (IF env.preSyncAutoCommit THEN 1 ELSE 0)
        /\ (Ran("commit") \/ Ran("commit --no-verify")) => env.preSyncAutoCommit
        /\ Ran("stash push") => (env.stashDirty /\ ~env.preSyncAutoCommit)
        /\ Ran("stash pop") => RanOk("stash push")

C5_Witness ==
    /\ SyncDone /\ BehindZero
    /\ env.autoCommit /\ env.autoPush
    /\ autoSync.result = "up-to-date"
    /\ RanOk("stash pop")

\* C6: when strategy is rebase, the rebase fails, the merge fallback is enabled
\* and the fallback merge succeeds, the result is 'ok-merge-fallback',
\* performed is true and postDivergence holds the counts measured after the
\* merge.
C6_MergeFallbackResult ==
    FallbackMergeSucceeded =>
        /\ autoSync.result = "ok-merge-fallback"
        /\ autoSync.performed
        /\ autoSync.postDivergence = Some(RevListCount(repo, env.upstreamRef))

C6_Witness ==
    /\ SyncDone /\ FallbackMergeSucceeded
    /\ gitLog[2] = Run("rebase", FALSE)
    /\ ~Ran("rebase --continue")
    /\ autoSync.postDivergence # None

\* ------------------------------------------------------------ whole run
RunDone == pc = "done"
Ended == pc \in {"done", "crashed"}

\* C7: at the end of every completed run the exit status is zero if and only
\* if fail() was never called and the issues list is empty; once a step has
\* marked the run fatal the exit status is not zero in any later state.
C7_ExitStatus ==
    /\ failLog # <<>> => exitCode # 0
    /\ RunDone => (exitCode = 0 <=> (failLog = <<>> /\ issues = <<>>))

C7_Witness ==
    /\ RunDone
    /\ failLog = <<>>
    /\ issues # <<>>
    /\ exitCode = 1

\* C8: every run ends with the aggregated summary printed, whichever steps
\* failed, also when package.json is unparsable after the sync or an external
\* command could not be started.
C8_SummaryAlwaysPrinted == Ended => printed

\* ------------------------------------------------------------ test runner
TestsDone == pc = "namespaceStrict" /\ ~env.skipTests
FailedInfra(a) == a.res.status # 0 /\ classifyInfraFailure(a.res)
PrimaryInfra == tests.attempts # <<>> /\ FailedInfra(tests.attempts[1])

\* C9: when the primary attempt exits non-zero with an infrastructure
\* signature and the fallback is not disabled, exactly one further attempt is
\* run, under the other pool; if it succeeds the outcome is 'ok(flaky)', if it
\* fails with an infrastructure signature the outcome is 'infra-failed' and
\* the retained result is the fallback attempt's.  With the fallback disabled
\* there is no second attempt and the outcome is 'infra-failed'.
C9_FallbackOnce ==
    (TestsDone /\ PrimaryInfra) =>
        LET a == tests.attempts
        IN  IF env.disableFallback
            THEN Len(a) = 1 /\ steps["unitTests"] = "infra-failed"
            ELSE /\ Len(a) = 2
                 /\ a[2].label = "fallback attempt"
                 /\ a[2].pool \in {"forks", "threads"}
                 /\ a[2].pool # a[1].pool
                 /\ a[2].res.status = 0 => steps["unitTests"] = "ok(flaky)"
                 /\ FailedInfra(a[2]) =>
                       /\ steps["unitTests"] = "infra-failed"
                       /\ tests.result = Some(a[2])

C9_Witness ==
    /\ TestsDone /\ PrimaryInfra
    /\ ~env.disableFallback
    /\ env.desiredPool = "threads"
    /\ Len(tests.attempts) = 2
    /\ FailedInfra(tests.attempts[2])
    /\ steps["unitTests"] = "infra-failed"

\* C10: the outcome 'infra-failed' is reported only if the last executed test
\* attempt exited non-zero with a crash signature in its output.
C10_InfraOnlyWithSignature ==
    (TestsDone /\ steps["unitTests"] = "infra-failed") =>
        FailedInfra(tests.attempts[Len(tests.attempts)])

\* C11: when the first attempt exits non-zero, is not classified as an
\* infrastructure failure and the text the script inspects for the retry
\* (stderr followed by stdout) shows 'Channel closed' or
\* 'ERR_IPC_CHANNEL_CLOSED', the tests are run exactly once more, as
\* 'attempt 2' under the same pool, and a retry that exits 0 becomes the
\* retained result with the outcome 'ok(flaky)'.
C11_RetryOnce ==
    (/\ TestsDone
     /\ tests.attempts[1].res.status # 0
     /\ ~classifyInfraFailure(tests.attempts[1].res)
     /\ IpcClosed(tests.attempts[1].res.out.stderr \o tests.attempts[1].res.out.stdout)) =>
        LET a == tests.attempts
        IN  /\ Len(a) = 2
            /\ a[2].label = "attempt 2"
            /\ a[2].pool = a[1].pool
            /\ a[2].res.status = 0 =>
                  /\ steps["unitTests"] = "ok(flaky)"
                  /\ tests.result = Some(a[2])
            /\ a[2].res.status # 0 => steps["unitTests"] = "error"

C11_Witness ==
    /\ TestsDone
    /\ env.desiredPool = "threads"
    /\ Len(tests.attempts) = 2
    /\ tests.attempts[1].res.status # 0
    /\ ~classifyInfraFailure(tests.attempts[1].res)
    /\ tests.attempts[2].label = "attempt 2"
    /\ tests.attempts[2].pool = "threads"
    /\ tests.attempts[2].res.status = 0
    /\ steps["unitTests"] = "ok(flaky)"

TestIssues == {"Flaky tests recovered", "Unit test infra failure tolerated",
               "Unit test infrastructure failure", "Unit tests failed"}
TestIssueAdded == \E m \in TestIssues : HasIssue(m)
TestFatal == Failed("Unit test infrastructure failure") \/ Failed("Unit tests failed")
TestOutcomes == {"ok", "ok(flaky)", "infra-failed", "error"}

\* C12 (as stated): with tests not skipped the outcome is one of 'ok',
\* 'ok(flaky)', 'infra-failed', 'error'; 'ok' adds no issue, 'ok(flaky)' adds
\* an issue and is not fatal, 'infra-failed' adds an issue and is fatal unless
\* MAINT_TOLERATE_TEST_FLAKE=1, and 'error' adds an issue and is fatal unless
\* the tolerance flag is set.
C12_OutcomeEffects ==
    TestsDone =>
        LET o == steps["unitTests"]
        IN  /\ o \in TestOutcomes
            /\ o = "ok" => ~TestIssueAdded /\ ~TestFatal
            /\ o = "ok(flaky)" => HasIssue("Flaky tests recovered") /\ ~TestFatal
            /\ o = "infra-failed" =>
                  /\ TestIssueAdded
                  /\ TestFatal <=> ~env.tolerateTestFlake
            /\ o = "error" =>
                  /\ HasIssue("Unit tests failed")
                  /\ TestFatal <=> ~env.tolerateTestFlake

\* C12 (amended): as above, except that 'error' always adds the issue
\* 'Unit tests failed' and is always fatal: MAINT_TOLERATE_TEST_FLAKE has no
\* effect on it.
C12_ErrorAlwaysFatal ==
    TestsDone =>
        LET o == steps["unitTests"]
        IN  /\ o \in TestOutcomes
            /\ o = "ok" => ~TestIssueAdded /\ ~TestFatal
            /\ o = "ok(flaky)" => HasIssue("Flaky tests recovered") /\ ~TestFatal
            /\ o = "infra-failed" =>
                  /\ TestIssueAdded
                  /\ TestFatal <=> ~env.tolerateTestFlake
            /\ o = "error" =>
                  /\ HasIssue("Unit tests failed")
                  /\ Failed("Unit tests failed")
                  /\ exitCode = 1

C12_Witness ==
    /\ TestsDone
    /\ env.tolerateTestFlake
    /\ steps["unitTests"] = "error"
    /\ HasIssue("Unit tests failed")
    /\ exitCode = 1

\* the crash signatures as the specification lists them: Channel closed,
\* ERR_IPC_CHANNEL_CLOSED, segmentation fault, SIGSEGV in any letter case, or
\* a zero-tests-discovered report together with a Duration line
ListedSignature(out) ==
    \/ CrashSignature(out)
    \/ Has(out, "0/0 tests") /\ Has(out, "Duration")

\* C13: classifyInfraFailure returns true for every captured output
\* (stdout + stderr) that contains a listed crash signature, and never returns
\* true for a failing output that contains none of them.
C13_ClassificationExact ==
    pc = "classified" =>
        LET res == tests.result[1].res
            out == res.out.stdout \o res.out.stderr
        IN  /\ ListedSignature(out) => tests.infraFailure
            /\ (res.status # 0 /\ ~ListedSignature(out)) => ~tests.infraFailure

\* ------------------------------------------- sync orchestrator, step by step
\* the commands and fail() messages one step of the script has added
NewCmds == SubSeq(gitLog', Len(gitLog) + 1, Len(gitLog'))
NewFails == SubSeq(failLog', Len(failLog) + 1, Len(failLog'))
CommitIdx(cmds) == {i \in DOMAIN cmds : cmds[i].cmd \in {"commit", "commit --no-verify"}}

\* C14: with a dirty working tree the gate takes exactly one of its four
\* paths, by the precedence auto-commit > stash > allow-dirty > abort: git add
\* -A is run iff pre-sync auto-commit is on, the stash is pushed iff it is off
\* and MAINT_STASH_DIRTY is on, the tree stays dirty and untouched iff both are
\* off and MAINT_ALLOW_DIRTY is on, and the abort is taken iff all three are
\* off.  With a clean tree the gate runs no command and reports nothing.
C14_DirtyPathPrecedence ==
    [][pc = "dirtyGate" =>
        LET dirty == repo.dirty
            commitPath == NewCmds # <<>> /\ NewCmds[1].cmd = "add -A"
            stashPath == NewCmds # <<>> /\ NewCmds[1].cmd = "stash push"
            abortPath == NewFails = <<"Dirty working tree blocks auto rebase.">>
            allowPath == dirty /\ ~commitPath /\ ~stashPath /\ ~abortPath
        IN  /\ commitPath <=> (dirty /\ env.preSyncAutoCommit)
            /\ stashPath <=> (dirty /\ ~env.preSyncAutoCommit /\ env.stashDirty)
            /\ allowPath <=> (dirty /\ ~env.preSyncAutoCommit /\ ~env.stashDirty
                              /\ env.allowDirty)
            /\ abortPath <=> (dirty /\ ~env.preSyncAutoCommit /\ ~env.stashDirty
                              /\ ~env.allowDirty)
            /\ (allowPath \/ ~dirty) =>
                  /\ UNCHANGED <<repo, gitLog, failLog, issues, exitCode>>
                  /\ ~stashed'
                  /\ autoSync'.result = Undef
            /\ stashed' => stashPath
            /\ autoSync'.result = "dirty-abort" <=> abortPath]_vars

C14_Witness ==
    /\ pc = "sync"
    /\ env.stashDirty /\ env.allowDirty /\ ~env.preSyncAutoCommit
    /\ gitLog = <<Run("fetch", TRUE), Run("stash push", TRUE)>>
    /\ stashed
    /\ ~repo.dirty
    /\ failLog = <<>>

\* C15: the inline resolution acts (rewrites package.json, stages it, runs git
\* rebase --continue) only when MAINT_AUTO_RESOLVE_PACKAGE_JSON=1 and
\* package.json is the only conflicting path.
C15_InlineOnlyForPackageJsonAlone ==
    [][(pc = "inline" /\ (gitLog' # gitLog \/ repo'.pkg # repo.pkg)) =>
          /\ env.autoResolvePackageJson
          /\ repo.unmerged = {PackageJson}]_vars

\* C16: the auto-commit acts only with the sync result 'ok', MAINT_AUTO_COMMIT=1
\* and a dirty working tree; it runs the commit command at most twice, the
\* second time with --no-verify and only after a failed first attempt made
\* without it; a commit record with a sha is stored only by this step and only
\* when a commit attempt exited 0.
C16_AutoCommitGuarded ==
    [][/\ pc = "autoCommit" =>
          LET n == Cardinality(CommitIdx(NewCmds))
          IN  /\ NewCmds # <<>> =>
                    /\ autoSync.result = "ok" /\ env.autoCommit /\ repo.dirty
                    /\ NewCmds[1].cmd = "add -A"
              /\ n <= 2
              /\ n = 2 =>
                    /\ ~env.noVerify
                    /\ NewCmds[2] = Run("commit", FALSE)
                    /\ NewCmds[3].cmd = "commit --no-verify"
              /\ n = 1 /\ ~env.noVerify => NewCmds[2] = Run("commit", TRUE)
              /\ autoSync'.commit = "sha" <=>
                    \E i \in CommitIdx(NewCmds) : NewCmds[i].ok
              /\ autoSync'.commit # Undef => autoSync.result = "ok" /\ env.autoCommit
       /\ autoSync'.commit # autoSync.commit => pc = "autoCommit"]_vars

C16_Witness ==
    /\ SyncDone
    /\ ~env.preSyncAutoCommit /\ ~env.noVerify /\ env.autoCommit
    /\ autoSync.result = "ok"
    /\ autoSync.commit = "sha"
    /\ \E i \in 1..(Len(gitLog) - 1) :
          gitLog[i] = Run("commit", FALSE) /\ gitLog[i + 1] = Run("commit --no-verify", TRUE)

\* C17: a push is attempted only with MAINT_AUTO_PUSH=1 after an auto-commit
\* of this run has produced a sha; hence never when the sync result is
\* 'up-to-date', 'conflict', 'dirty-abort' or 'ok-merge-fallback', nor when the
\* auto-commit found no changes or failed.
C17_PushOnlyAfterCommit ==
    Ran("push") =>
        /\ env.autoPush /\ env.autoCommit
        /\ autoSync.commit = "sha"
        /\ autoSync.result = "ok"
        /\ \E i \in DOMAIN gitLog :
              /\ gitLog[i].cmd \in {"commit", "commit --no-verify"}
              /\ gitLog[i].ok
              /\ i < Len(gitLog)
              /\ \A j \in (i + 1)..Len(gitLog) : gitLog[j].cmd \in {"push", "stash pop"}

C17_Witness ==
    /\ SyncDone
    /\ env.autoPush
    /\ autoSync.result = "ok"
    /\ autoSync.commit = "sha"
    /\ RanOk("push")
    /\ autoSync.push

\* C18: when the gate stashed the changes, exactly one stash pop is run, as
\* the last command of the sync step, whatever the sync did; no pop is run
\* otherwise; a failed pop adds the issue 'Failed to pop stash', which makes
\* the exit status non-zero.
C18_StashPoppedOnce ==
    /\ Ran("stash pop") => RanOk("stash push")
    /\ pc \in {"divergence", "dirtyGate", "sync", "inline", "fallback", "conflict",
                "autoCommit", "autoPush", "stashRestore"} => ~Ran("stash pop")
    /\ (SyncDone /\ RanOk("stash push")) =>
          /\ Times("stash pop") = 1
          /\ gitLog[Len(gitLog)].cmd = "stash pop"
          /\ ~RanOk("stash pop") =>
                /\ HasIssue("Failed to pop stash")
                /\ FinalExit(exitCode, issues) # 0

C18_Witness ==
    /\ SyncDone
    /\ RanOk("stash push")
    /\ RanOk("rebase --continue")
    /\ gitLog[Len(gitLog)] = Run("stash pop", FALSE)
    /\ exitCode = 0
    /\ issues = <<"Upstream sync conflict (tolerated)", "Failed to pop stash">>

\* C19: the configured strategy is attempted iff HEAD is behind the configured
\* upstream reference by more than 0 commits, and the divergence measured
\* before the sync is the one against that reference.
C19_GatedOnUpstreamRef ==
    [][pc = "sync" =>
          /\ gitLog' # gitLog <=>
                (RevListOk(repo, env.upstreamRef)
                    /\ RevListCount(repo, env.upstreamRef).behind > 0)
          /\ divergence = None <=> ~RevListOk(repo, env.upstreamRef)
          /\ divergence # None =>
                divergence[1].behind = RevListCount(repo, env.upstreamRef).behind]_vars

\* C20: when the sync step ends after a successful sync (direct, continued
\* after the inline resolution, or merge fallback) that left a manifest
\* without the brand prefix, the overlay applier has been run and the
\* divergence has been measured again.
C20_OverlayAfterEverySync ==
    (pc \in {"autoCommit", "autoPush", "stashRestore", "engines"}
        /\ autoSync.performed /\ repo.pkg = "unbranded") =>
        /\ Ran("overlay")
        /\ autoSync.postDivergence # None

\* ------------------------------------------------------- welcome message
\* let cachedName: string | null | undefined; the handles a session or the
\* service can give
Null == "null"
Handles == {"octocat", "monalisa"}

\* auth.anyGitHubSession: reading it throws, there is no session, the session
\* has no account label, or the label
Sessions == {"throws", "absent", "unlabelled"} \cup Handles

\* cachedName after getCachedUserDisplayNameSync: kept when it is not
\* undefined, else the label of the session when there is one
CacheAfterSync(cachedName, session) ==
    IF cachedName # Undef THEN cachedName
    ELSE IF session \in Handles THEN session ELSE Undef

\* getCachedUserDisplayNameSync(accessor): the handle, or undefined
getCachedUserDisplayNameSync(cachedName, session) ==
    LET c == CacheAfterSync(cachedName, session)
    IN  IF c = Null THEN Undef ELSE c

Segment(kind, handle) == [kind |-> kind, handle |-> handle]

\* the greeting never names the user
Greeting_AlwaysGeneric(userHandle) == Segment("generic", Undef)

\* userHandle ? 'Welcome back, {0}! ...' : 'Welcome to {0}! ...'
Greeting(userHandle) ==
    IF userHandle # Undef THEN Segment("back", userHandle) ELSE Segment("generic", Undef)

\* the segments getAdditionalWelcomeMessage pushes
Segments(w) ==
    (IF w.hint THEN <<Segment("hint", Undef)>> ELSE <<>>)
    \o (IF w.personalizedWelcome
        THEN <<Greeting(IF w.personalizedUserGreeting
                        THEN getCachedUserDisplayNameSync(w.cachedName, w.session)
                        ELSE Undef),
               Segment("tips", Undef)>>
        ELSE <<>>)

\* if (!segments.length) return undefined; return new MarkdownString(...)
Returned(segments) ==
    [returned |-> IF Len(segments) = 0 THEN Undef ELSE "markdown", segments |-> segments]

WelcomeInit ==
    /\ pc = "welcome"
    /\ env \in {e \in TestEnvs : ~e.skipTests /\ e.desiredPool = ""
                                  /\ ~e.disableFallback /\ ~e.tolerateTestFlake}
    /\ repo = RepoInit(FALSE, 0, [r \in Refs |-> [ok |-> r = DefaultRef, behind |-> 0]])
    /\ divergence = None
    /\ autoSync = AutoSyncInit
    /\ stashed = FALSE
    /\ steps = StepsInit
    /\ issues = <<>>
    /\ exitCode = 0
    /\ failLog = <<>>
    /\ gitLog = <<>>
    /\ brandAudit = None
    /\ tests = TestsInit
    /\ printed = FALSE
    /\ manifest = None
    /\ grepOut = None
    /\ versions = None
    /\ \E hint \in BOOLEAN, pw \in BOOLEAN, pug \in BOOLEAN, session \in Sessions :
        welcome = Some([hint |-> hint, personalizedWelcome |-> pw,
                        personalizedUserGreeting |-> pug, session |-> session,
                        cachedName |-> Undef, pending |-> 0, calls |-> 0,
                        result |-> None])

\* getAdditionalWelcomeMessage(accessor), with the synchronous part of
\* resolveUserDisplayName: it returns at once when the cache gives a handle or
\* holds null, and else awaits the service
GetAdditionalWelcomeMessage ==
    /\ pc = "welcome"
    /\ welcome # None
    /\ welcome[1].calls < MaxCalls
    /\ LET w == welcome[1]
           asks == w.personalizedWelcome /\ w.personalizedUserGreeting
           cache == IF asks THEN CacheAfterSync(w.cachedName, w.session) ELSE w.cachedName
           awaits == asks /\ cache = Undef
       IN  welcome' = Some([w EXCEPT !.cachedName = cache,
                                     !.pending = IF awaits THEN @ + 1 ELSE @,
                                     !.calls = @ + 1,
                                     !.result = Some(Returned(Segments(w)))])
    /\ UNCHANGED <<manifest, grepOut, versions, pc, env, repo, divergence, autoSync, stashed, steps,
                   issues, exitCode, failLog, gitLog, brandAudit, tests, printed>>

\* resolveUserDisplayName after its await: the login, or null when the
\* service gave none or threw
ResolveUserDisplayName ==
    /\ pc = "welcome"
    /\ welcome # None
    /\ welcome[1].pending > 0
    /\ \E login \in {Undef} \cup Handles :
        welcome' = Some([welcome[1] EXCEPT !.cachedName = IF login # Undef THEN login ELSE Null,
                                           !.pending = @ - 1])
    /\ UNCHANGED <<manifest, grepOut, versions, pc, env, repo, divergence, autoSync, stashed, steps,
                   issues, exitCode, failLog, gitLog, brandAudit, tests, printed>>

\* the authentication session changes between two calls
SessionChange ==
    /\ pc = "welcome"
    /\ welcome # None
    /\ \E s \in Sessions \ {welcome[1].session} :
        welcome' = Some([welcome[1] EXCEPT !.session = s])
    /\ UNCHANGED <<manifest, grepOut, versions, pc, env, repo, divergence, autoSync, stashed, steps,
                   issues, exitCode, failLog, gitLog, brandAudit, tests, printed>>

\* export function __resetUserDisplayNameCache() { cachedName = undefined; }
ResetUserDisplayNameCache ==
    /\ pc = "welcome"
    /\ welcome # None
    /\ welcome' = Some([welcome[1] EXCEPT !.cachedName = Undef])
    /\ UNCHANGED <<manifest, grepOut, versions, pc, env, repo, divergence, autoSync, stashed, steps,
                   issues, exitCode, failLog, gitLog, brandAudit, tests, printed>>

WelcomeNext ==
    \/ GetAdditionalWelcomeMessage
    \/ ResolveUserDisplayName
    \/ SessionChange
    \/ ResetUserDisplayNameCache

WelcomeSpec == WelcomeInit /\ [][WelcomeNext]_vars

\* ------------------------------------------- resolver and overlay applier
Resolved == manifest # None /\ manifest[1].merged # None
MLocal == read(manifest[1].local)
MRemote == read(manifest[1].remote)
Merged == manifest[1].merged[1]

\* C21: in each of the four dependency sections, every key of remote's
\* section has in the merged section exactly remote's value, whatever local
\* defines for it.
C21_RemotePrecedence ==
    Resolved =>
        \A sect \in SectionSet :
            sect \in DOMAIN MRemote =>
                /\ sect \in DOMAIN Merged
                /\ \A k \in DOMAIN MRemote[sect] :
                      /\ k \in DOMAIN Merged[sect]
                      /\ Merged[sect][k] = MRemote[sect][k]

C21_Witness ==
    /\ Resolved
    /\ "dependencies" \in DOMAIN MLocal /\ "dependencies" \in DOMAIN MRemote
    /\ "left-pad" \in DOMAIN MLocal["dependencies"]
    /\ "left-pad" \in DOMAIN MRemote["dependencies"]
    /\ MLocal["dependencies"]["left-pad"] = "1.0.0"
    /\ MRemote["dependencies"]["left-pad"] = "2.0.0"
    /\ Merged["dependencies"]["left-pad"] = "2.0.0"

\* C22: every key of a local dependency section that is absent from the same
\* section of remote is in the merged section with exactly local's value; a
\* section local defines and remote lacks is in the merged document with
\* exactly local's entries.
C22_LocalOnlyKeysAdded ==
    Resolved =>
        \A sect \in SectionSet :
            sect \in DOMAIN MLocal =>
                /\ sect \in DOMAIN Merged
                /\ \A k \in DOMAIN MLocal[sect] :
                      (sect \notin DOMAIN MRemote \/ k \notin DOMAIN MRemote[sect]) =>
                          /\ k \in DOMAIN Merged[sect]
                          /\ Merged[sect][k] = MLocal[sect][k]
                /\ sect \notin DOMAIN MRemote => Merged[sect] = MLocal[sect]

\* C23 (as stated): every top-level key of remote is a top-level key of the
\* merged document.
C23_EveryRemoteKeyKept ==
    Resolved => \A k \in DOMAIN MRemote : k \in DOMAIN Merged

\* C23 (amended): every top-level key of remote other than displayName and
\* icon is a top-level key of the merged document, and outside the dependency
\* sections it keeps remote's value; displayName and icon never are.
C23_RemoteKeysKeptButBrand ==
    Resolved =>
        /\ \A k \in DOMAIN MRemote \ {"displayName", "icon"} :
              /\ k \in DOMAIN Merged
              /\ k \notin SectionSet => Merged[k] = MRemote[k]
        /\ "displayName" \notin DOMAIN Merged
        /\ "icon" \notin DOMAIN Merged

C23_Witness ==
    /\ Resolved
    /\ {"displayName", "icon", "description", "peerDependencies"} \subseteq DOMAIN MRemote
    /\ DOMAIN Merged = {"description", "peerDependencies"}

\* C24: in every resolver entry point a local or remote document that is
\* missing or does not parse is read as an empty document, and the merged
\* document is still produced and written.
C24_NeverFailsOnMalformed ==
    (manifest # None /\ manifest[1].entry \in Entries /\ pc # "resolve") =>
        /\ Resolved
        /\ manifest[1].once = None => manifest[1].file = Raw("doc", Merged)
        /\ Merged = MergeJson(MLocal, MRemote)

\* the document the first application of the overlay read
Started ==
    IF manifest[1].merged # None THEN Raw("doc", manifest[1].merged[1]) ELSE manifest[1].start
AppliedTwice == manifest # None /\ pc = "end"

\* C25: the overlay applied twice leaves the document the overlay applied once
\* leaves, and a manifest whose displayName starts with 'SWE Agent' is not
\* written at all.
C25_OverlayIdempotent ==
    AppliedTwice =>
        /\ manifest[1].once = Some(manifest[1].file)
        /\ manifest[1].writes <= 1
        /\ (Started.kind = "doc" /\ "displayName" \in DOMAIN Started.doc
              /\ Started.doc["displayName"] \in {"SWE Agent Chat", "SWE Agent Pro"}) =>
              /\ manifest[1].writes = 0
              /\ manifest[1].file = Started

C25_Witness ==
    /\ AppliedTwice
    /\ manifest[1].entry = "none"
    /\ Started.kind = "doc"
    /\ "displayName" \in DOMAIN Started.doc
    /\ Started.doc["displayName"] = "GitHub Copilot Chat"
    /\ manifest[1].writes = 1
    /\ manifest[1].file.doc["displayName"] = "SWE Agent Chat"
    /\ manifest[1].file.doc["description"] = "AI by SWE Agent"

\* C26: the resolver's output never carries displayName or icon, so the
\* overlay applied to it always writes: the result has displayName 'SWE Agent
\* Chat' and icon 'assets/agent.png', and every key of the resolver's output
\* other than description with its value unchanged.
C26_OverlayTakesEffectAfterResolve ==
    Resolved =>
        /\ "displayName" \notin DOMAIN Merged
        /\ "icon" \notin DOMAIN Merged
        /\ manifest[1].once # None =>
              LET o == manifest[1].once[1]
              IN  /\ o.kind = "doc"
                  /\ manifest[1].writes = 1
                  /\ DOMAIN o.doc = DOMAIN Merged \cup {"displayName", "icon", "description"}
                  /\ o.doc["displayName"] = "SWE Agent Chat"
                  /\ o.doc["icon"] = "assets/agent.png"
                  /\ \A k \in DOMAIN Merged \ {"description"} : o.doc[k] = Merged[k]

C26_Witness ==
    /\ Resolved
    /\ pc = "overlayAgain"
    /\ "displayName" \in DOMAIN MRemote
    /\ MRemote["displayName"] = "SWE Agent Chat"
    /\ "icon" \in DOMAIN MRemote
    /\ "devDependencies" \in DOMAIN Merged
    /\ manifest[1].file.doc["icon"] = "assets/agent.png"
    /\ manifest[1].writes = 1

\* ------------------------------------------------------ step independence
SummaryEntries == {"fetch", "divergence", "engines", "install", "compile", "brandAudit",
                   "unitTests", "namespaceStrict"}
AllRecorded == \A n \in SummaryEntries : steps[n] # Undef

\* C27: whatever the outcomes of the earlier steps, every later step runs and
\* records its outcome: a run never ends without an entry for fetch,
\* divergence, engines, install, compile, brandAudit, unitTests and
\* namespaceStrict.
C27_LaterStepsAlwaysRun == Ended => AllRecorded

\* C28: a run in which the upstream fetch failed, and in which no other step
\* called fail() or added an issue, records fetch = 'error', runs every later
\* step and ends with exit status zero.
C28_FetchFailureNotFatal ==
    (RunDone /\ steps["fetch"] = "error" /\ failLog = <<"git fetch upstream failed">>
       /\ issues = <<>>) =>
        /\ AllRecorded
        /\ exitCode = 0

\* ------------------------------------------------------------ brand audit
\* the lines whose path starts with a directory entry of the allow-list, or
\* is a file entry of it
AllowListedAt(lines) ==
    {i \in DOMAIN lines :
        \/ \E e \in allowList : e.dir /\ Len(lines[i]) > Len(e.segs)
                                /\ SubSeq(lines[i], 1, Len(e.segs)) = e.segs
        \/ \E e \in allowList : ~e.dir /\ lines[i] = e.segs}
StrayAt(lines) == DOMAIN lines \ AllowListedAt(lines)

\* C29: the audit counts every matching line once, as allow-listed (its path
\* starts with a directory entry or is a file entry) or as stray, so that
\* total = allow-listed + stray; with one or more stray lines it adds exactly
\* one issue and does not call fail(), and with none it adds no issue.
C29_AuditPartition ==
    [][(pc = "brandAudit" /\ grepOut # None) =>
        LET lines == grepOut[1]
        IN  /\ brandAudit' = Some([total |-> Len(lines),
                                   stray |-> Cardinality(StrayAt(lines))])
            /\ brandAudit'[1].total =
                  Cardinality(AllowListedAt(lines)) + brandAudit'[1].stray
            /\ issues' = IF StrayAt(lines) # {}
                         THEN Append(issues, "Stray brand literals found") ELSE issues
            /\ failLog' = failLog
            /\ exitCode' = exitCode]_vars

C29_Witness ==
    /\ pc = "unitTests"
    /\ grepOut = Some(<<<<"src", "extension", "test", "node", "fixtures", "gitdiff", "a.diff">>,
                       <<"src", "extension", "agents", "agent.ts">>>>)
    /\ brandAudit = Some([total |-> 2, stray |-> 1])
    /\ issues = <<"Stray brand literals found">>
    /\ failLog = <<>>
    /\ exitCode = 0

\* -------------------------------------------------------- welcome message
\* a handle is synchronously available: the cache holds one, or nothing has
\* been cached yet and the session has a label
HandleAvailable(w) ==
    w.cachedName \in Handles \/ (w.cachedName = Undef /\ w.session \in Handles)
AvailableHandle(w) == IF w.cachedName \in Handles THEN w.cachedName ELSE w.session
Kinds(segments) == {segments[i].kind : i \in DOMAIN segments}

\* C30: getAdditionalWelcomeMessage returns undefined exactly when it produced
\* no segment, which is when the internal hint and personalizedWelcome are
\* both disabled; with personalizedWelcome enabled the message carries the
\* 'Welcome back' greeting with the user's handle if personalizedUserGreeting
\* is enabled and a handle is synchronously available, and the generic
\* greeting otherwise, never both; without it, neither.
C30_WelcomeMessage ==
    [][(welcome # None /\ welcome'[1].calls = welcome[1].calls + 1) =>
        LET w == welcome[1]
            r == welcome'[1].result[1]
        IN  /\ r.returned = Undef <=> Len(r.segments) = 0
            /\ r.returned = Undef <=> (~w.hint /\ ~w.personalizedWelcome)
            /\ ~w.personalizedWelcome => Kinds(r.segments) \cap {"back", "generic"} = {}
            /\ w.personalizedWelcome =>
                  IF w.personalizedUserGreeting /\ HandleAvailable(w)
                  THEN /\ \E i \in DOMAIN r.segments :
                             r.segments[i] = [kind |-> "back", handle |-> AvailableHandle(w)]
                       /\ "generic" \notin Kinds(r.segments)
                  ELSE /\ "generic" \in Kinds(r.segments)
                       /\ "back" \notin Kinds(r.segments)]_vars

C30_Witness ==
    /\ welcome # None
    /\ welcome[1].calls = 2
    /\ welcome[1].session = "absent"
    /\ welcome[1].cachedName = "monalisa"
    /\ welcome[1].result =
          Some([returned |-> "markdown",
                segments |-> <<[kind |-> "hint", handle |-> Undef],
                               [kind |-> "back", handle |-> "monalisa"],
                               [kind |-> "tips", handle |-> Undef]>>])

\* ------------------------------------------- equivalence of the resolvers
\* the merged document an entry point writes for local and remote, if any
Written(entry, local, remote) ==
    IF Produces(entry, local, remote)
    THEN Some(MergeJson(read(local), read(remote))) ELSE None

\* C31: for every pair of local and remote contents, parseable or not, the
\* entry point that ran has written the merged document each of the three
\* entry points writes for that pair.
C31_ResolversEquivalent ==
    (manifest # None /\ manifest[1].entry \in Entries /\ pc # "resolve") =>
        \A e \in Entries :
            manifest[1].merged = Written(e, manifest[1].local, manifest[1].remote)

\* ------------------------------------------------- sync result and gate
\* C32: at the end of the sync step performed is true if and only if the
\* final result is 'ok' or 'ok-merge-fallback'.
C32_PerformedIffOk ==
    SyncDone => (autoSync.performed <=> autoSync.result \in {"ok", "ok-merge-fallback"})

StartsSync == \E i \in DOMAIN NewCmds : NewCmds[i].cmd \in {"rebase", "merge"}

\* the selected dirty-tree handling has failed
GateFailed ==
    \E i \in DOMAIN gitLog :
        gitLog[i] \in {Run("stash push", FALSE), Run("add -A", FALSE)}
                      \cup {Run(c, FALSE) : c \in {"commit", "commit --no-verify"}}
GateRecovered == RanOk("commit") \/ RanOk("commit --no-verify")

\* C33: when the selected dirty-tree handling has failed (the stash push, or
\* the pre-sync add or commit, exited non-zero) no rebase or merge against
\* upstream is started: one is started only on a clean working tree or with
\* MAINT_ALLOW_DIRTY=1.
C33_NoSyncAfterFailedGate ==
    [][(pc = "sync" /\ GateFailed /\ ~GateRecovered /\ ~env.allowDirty) => ~StartsSync]_vars

\* ------------------------------------------------- user display name cache
NameCached == welcome # None /\ welcome[1].cachedName \in Handles
NoneFound == welcome # None /\ welcome[1].cachedName = Null
Asks(w) == w.personalizedWelcome /\ w.personalizedUserGreeting
Called == welcome'[1].calls = welcome[1].calls + 1

\* C34: once a name is cached, no step other than __resetUserDisplayNameCache
\* changes the cache: neither a call of getCachedUserDisplayNameSync or
\* resolveUserDisplayName nor the completion of a resolve that was in flight,
\* whether it found a name or not, replaces the name or sets the 'none found'
\* marker.
C34_CachedNameStable ==
    [][NameCached =>
        (welcome'[1].cachedName = welcome[1].cachedName \/ ResetUserDisplayNameCache)]_vars

\* C35: after a resolve has completed with no name found the marker stays
\* until __resetUserDisplayNameCache, and every call in between yields no
\* handle and starts no service call; while a name is cached a call yields
\* that name and starts no service call.
C35_NoneFoundSticky ==
    [][/\ NoneFound =>
            /\ welcome'[1].cachedName = Null \/ ResetUserDisplayNameCache
            /\ (Called /\ Asks(welcome[1])) =>
                  /\ "back" \notin Kinds(welcome'[1].result[1].segments)
                  /\ welcome'[1].pending = welcome[1].pending
       /\ (NameCached /\ Called /\ Asks(welcome[1])) =>
            /\ [kind |-> "back", handle |-> welcome[1].cachedName]
                  \in {welcome'[1].result[1].segments[i] :
                          i \in DOMAIN welcome'[1].result[1].segments}
            /\ welcome'[1].pending = welcome[1].pending]_vars

\* --------------------------------------------------------- tolerance flags
\* what the run recorded of the outcomes of its commands, in terms that do
\* not depend on a tolerance flag: every step succeeded
OutcomesClean ==
    /\ steps["fetch"] = "ok"
    /\ ~Failed("Dirty working tree blocks auto rebase.")
    /\ autoSync.conflicts = None
    /\ \A i \in DOMAIN gitLog : gitLog[i] # Run("stash pop", FALSE)
    /\ steps["engines"] = "ok"
    /\ steps["install"] \in {"ok", "skipped"}
    /\ ~Failed("Failed to remove node_modules")
    /\ steps["compile"] = "ok"
    /\ brandAudit # None /\ brandAudit[1].stray = 0
    /\ steps["unitTests"] \in {"ok", "skipped"}
    /\ steps["namespaceStrict"] = "ok"

SemverGE(have, required) ==
    \/ required = None
    \/ LET want == required[1]
           h(i) == VersionAt(have, i)
           w(i) == VersionAt(want, i)
       IN  \/ h(1) > w(1)
           \/ h(1) = w(1) /\ h(2) > w(2)
           \/ h(1) = w(1) /\ h(2) = w(2) /\ h(3) >= w(3)

\* C37: engine verification records 'ok' if and only if the actual Node and
\* npm versions are each greater than or equal to the required one in
\* semantic-version order; an actual version with a higher major and a lower
\* minor than required is 'ok'.
C37_EnginesOkIffSemverGE ==
    [][(pc = "engines" /\ versions # None /\ pc' = "install") =>
        (steps'["engines"] = "ok" <=>
            /\ SemverGE(versions[1].actualNode, versions[1].requiredNode)
            /\ SemverGE(versions[1].actualNpm, versions[1].requiredNpm))]_vars

\* ------------------------------------------------------------ stash restore
PopsStash == \E i \in DOMAIN NewCmds : NewCmds[i].cmd = "stash pop"

C39_NothingFromLocalOutsideSections ==
    Resolved =>
        /\ DOMAIN Merged \ SectionSet =
              (DOMAIN MRemote \ SectionSet) \ {"displayName", "icon"}
        /\ \A k \in DOMAIN Merged \ SectionSet : Merged[k] = MRemote[k]
        /\ \A k \in (DOMAIN MLocal \ DOMAIN MRemote) \ SectionSet : k \notin DOMAIN Merged

C39_Witness ==
    /\ Resolved
    /\ manifest[1].entry = "inline"
    /\ "description" \in DOMAIN MLocal
    /\ "displayName" \in DOMAIN MLocal
    /\ "optionalDependencies" \in DOMAIN MLocal
    /\ DOMAIN MRemote = {"icon"}
    /\ DOMAIN Merged = {"optionalDependencies"}

====
